---------------------------- MODULE Spec2Model ----------------------------
(***************************************************************************)
(* A model of the core of the clisp interpreter (src/): the value model    *)
(* with its per-variant equality, the List node chains, the exception      *)
(* machinery and its reference counts, the environment frames and the      *)
(* evaluator (eval, apply_proc, the tail-call rewrite, the special forms). *)
(*                                                                         *)
(* The module holds several specifications over one set of variables:      *)
(*   SpecEq    LispDatum_eq applied to pairs of objects of a small heap    *)
(*   SpecList  list, cons, rest, concat and quasiquote on the node chains  *)
(*   Spec      a session of forms read, evaluated and printed by rep       *)
(*   SpecExn   exceptions and the reference counts of the datums           *)
(*   SpecEnv   the lifetime of the environment frames                      *)
(*   SpecSym   the symbol table and Symbol_intern                          *)
(*   SpecGet   MalEnv_put and MalEnv_get over a chain of frames            *)
(*   SpecTbl   put, pop and get on one HashTbl                             *)
(*   SpecNum   the comparison of 64-bit Numbers                            *)
(*   SpecRW    pr_str followed by the reader                               *)
(* Every specification leaves the variables of the others at their initial *)
(* values.                                                                 *)
(***************************************************************************)
EXTENDS Integers, Sequences, FiniteSets, TLC

VARIABLES
    eqargs,     \* SpecEq: the three objects (addresses) under comparison
    cmps,       \* SpecEq: the comparisons made so far, [x, y, r]
    nodes,      \* SpecList: the struct Node heap, [value, next] (next 0 = NULL)
    lists,      \* SpecList: the List heap, [len, head, tail]; 1 is List_empty()
    lop,        \* SpecList: the last list operation, [op, res]
    interp,     \* Spec: the interpreter, [envs, procs, lastfail, last_exn,
                \*       crashed, printed]
    last,       \* Spec: the last form read
    retval,     \* Spec: the value eval returned for it
    nreps,      \* Spec: the number of forms read
    objs,       \* SpecExn: the datums allocated, [kind, dtm, refc, freed],
                \*          and whether FATAL ended the process
    genv,       \* SpecExn: the root environment, name -> address (0: unbound)
    g_last_exn, \* SpecExn: g_last_exn.dtm (0: NULL)
    seen,       \* SpecExn: <<the value thrown, the value catch* bound>> when
                \*          the last form was a try*, else <<>>
    returned,   \* SpecExn: [scope, sel, live]: the scope the last form
                \*          returned a value from and whether rep got it intact
    mem,        \* SpecEnv: the MalEnvs and the closures allocated
    frames,     \* SpecEnv: the environments of the evaluations in progress
    pending,    \* SpecEnv: the closure just evaluated (0: none)
    symtab,     \* SpecSym: g_symbol_table, [cap, size, buckets]
    symbols,    \* SpecSym: the Symbols allocated, [name, refc, freed]
    hashes,     \* SpecSym, SpecGet, SpecTbl: hash_simple_str, name -> hash
    calls,      \* SpecSym: the calls of Symbol_intern made, <<name, symbol>>
    malenvs,    \* SpecGet: the MalEnvs, [binds, enclosing] (enclosing 0: NULL)
    latest,     \* SpecGet: per MalEnv, name -> the value last put (0: none)
    htbl,       \* SpecTbl: a HashTbl, [cap, size, buckets]
    hmap,       \* SpecTbl: key -> the value last put and not popped (0: none)
    hret,       \* SpecTbl: the last operation, [op, key, r, was]
    numop,      \* SpecNum: the last comparison, [op, a, b, r]
    rwop        \* SpecRW: the last datum printed and read back, [d, s, r]

vars == <<eqargs, cmps, nodes, lists, lop, interp, last, retval, nreps,
          objs, genv, g_last_exn, seen, returned, mem, frames, pending,
          symtab, symbols, hashes, calls, malenvs, latest, htbl, hmap, hret,
          numop, rwop>>

eqVars == <<eqargs, cmps>>
listVars == <<nodes, lists, lop>>
evalVars == <<interp, last, retval, nreps>>
exnVars == <<objs, genv, g_last_exn, seen, returned>>
envVars == <<mem, frames, pending>>
symVars == <<symtab, symbols, hashes, calls>>
getVars == <<malenvs, latest>>
tblVars == <<htbl, hmap, hret>>
numVars == <<numop, rwop>>
libVars == <<getVars, tblVars, numVars>>

(***************************************************************************)
(* Bounds of the model.                                                    *)
(***************************************************************************)
MaxCmp == 3
MaxNodes == 5       \* struct Nodes allocated in a run of SpecList
MaxLists == 4       \* List objects in a run of SpecList, List_empty() included
MaxArgs == 3        \* arguments of concat, elements of a quasiquote template
MaxListArgs == 2    \* arguments of list

(***************************************************************************)
(*                      THE VALUE MODEL: EQUALITY                          *)
(*                                                                         *)
(* EqHeap is a heap of objects, one record per address.  Two objects at    *)
(* different addresses may hold the same value (4 and 5 are two Numbers    *)
(* 0).  Nil, True and False are the process-wide singletons returned by    *)
(* Nil_get, True_get and False_get.                                        *)
(***************************************************************************)
EqHeap ==
    <<  [type |-> "NIL"],                              \* 1  Nil_get()
        [type |-> "TRUE"],                             \* 2  True_get()
        [type |-> "FALSE"],                            \* 3  False_get()
        [type |-> "NUMBER", val |-> 0],                \* 4
        [type |-> "NUMBER", val |-> 0],                \* 5
        [type |-> "SYMBOL", name |-> "a"],             \* 6  interned
        [type |-> "STRING", str |-> "a"],              \* 7
        [type |-> "LIST", elems |-> <<4>>],            \* 8   (0)
        [type |-> "LIST", elems |-> <<1>>],            \* 9   (nil)
        [type |-> "ATOM", dtm |-> 4],                  \* 10
        [type |-> "EXCEPTION", dtm |-> 5],             \* 11
        [type |-> "PROCEDURE"]                         \* 12
    >>

Addr == 1..Len(EqHeap)

Singletons == {"NIL", "TRUE", "FALSE"}

\* The outcome of a read through a pointer to a struct of another variant
\* (Number_eq reads b->val of a List, String_eq passes a Number's val to
\* strcmp, ...): undefined behaviour, any answer or a fault.
UB == {"true", "false", "crash"}

Bool2Out(b) == IF b THEN "true" ELSE "false"

\* Nil_eq, True_eq, False_eq: `return true;`
Nil_eq(a, b) == {"true"}
True_eq(a, b) == {"true"}
False_eq(a, b) == {"true"}

\* Symbol_eq: `return s1 == s2;` (never reads through s2)
Symbol_eq(s1, s2) == {Bool2Out(s1 = s2)}

\* Proc_eq: `return a == b;`
Proc_eq(a, b) == {Bool2Out(a = b)}

\* Number_eq: `return a->val == b->val;`
Number_eq(a, b) ==
    IF EqHeap[b].type = "NUMBER"
    THEN {Bool2Out(EqHeap[a].val = EqHeap[b].val)}
    ELSE UB

\* String_eq: `return strcmp(a->str, b->str) == 0;`
String_eq(a, b) ==
    IF EqHeap[b].type = "STRING"
    THEN {Bool2Out(EqHeap[a].str = EqHeap[b].str)}
    ELSE UB

\* Atom_eq: `return a->dtm == b->dtm;`
Atom_eq(a, b) ==
    IF EqHeap[b].type = "ATOM"
    THEN {Bool2Out(EqHeap[a].dtm = EqHeap[b].dtm)}
    ELSE UB

RECURSIVE LispDatum_eq(_, _)
RECURSIVE List_eq_from(_, _, _)

\* The loop of List_eq from element i on: the first unequal pair returns
\* false, a fault ends the process.
List_eq_from(e1, e2, i) ==
    IF i > Len(e1) THEN {"true"}
    ELSE LET here == LispDatum_eq(e1[i], e2[i])
         IN  (here \ {"true"})
             \cup (IF "true" \in here THEN List_eq_from(e1, e2, i + 1) ELSE {})

\* List_eq: same pointer, then the lengths, then the elements in order
List_eq(lst1, lst2) ==
    IF lst1 = lst2 THEN {"true"}
    ELSE IF EqHeap[lst2].type # "LIST" THEN UB
    ELSE IF Len(EqHeap[lst1].elems) # Len(EqHeap[lst2].elems) THEN {"false"}
    ELSE List_eq_from(EqHeap[lst1].elems, EqHeap[lst2].elems, 1)

\* Exception_eq: `return LispDatum_eq(a->dtm, b->dtm);`
Exception_eq(a, b) ==
    IF EqHeap[b].type = "EXCEPTION"
    THEN LispDatum_eq(EqHeap[a].dtm, EqHeap[b].dtm)
    ELSE UB

\* LispDatum_eq: `return dtm1 == dtm2 || LispDatum_methods(dtm1)->eq(dtm1, dtm2);`
\* The set of outcomes the call can have.
LispDatum_eq(dtm1, dtm2) ==
    IF dtm1 = dtm2 THEN {"true"}
    ELSE CASE EqHeap[dtm1].type = "NIL"       -> Nil_eq(dtm1, dtm2)
           [] EqHeap[dtm1].type = "TRUE"      -> True_eq(dtm1, dtm2)
           [] EqHeap[dtm1].type = "FALSE"     -> False_eq(dtm1, dtm2)
           [] EqHeap[dtm1].type = "NUMBER"    -> Number_eq(dtm1, dtm2)
           [] EqHeap[dtm1].type = "SYMBOL"    -> Symbol_eq(dtm1, dtm2)
           [] EqHeap[dtm1].type = "STRING"    -> String_eq(dtm1, dtm2)
           [] EqHeap[dtm1].type = "LIST"      -> List_eq(dtm1, dtm2)
           [] EqHeap[dtm1].type = "ATOM"      -> Atom_eq(dtm1, dtm2)
           [] EqHeap[dtm1].type = "EXCEPTION" -> Exception_eq(dtm1, dtm2)
           [] EqHeap[dtm1].type = "PROCEDURE" -> Proc_eq(dtm1, dtm2)

\* lisp_eq, the builtin =: (= x y) on the objects at positions i and j of
\* the arguments drawn at the start
lisp_eq(i, j) ==
    /\ Cardinality(cmps) < MaxCmp
    /\ \A c \in cmps : c.r # "crash"
    /\ \A c \in cmps : ~(c.x = eqargs[i] /\ c.y = eqargs[j])
    /\ \E r \in LispDatum_eq(eqargs[i], eqargs[j]) :
          cmps' = cmps \cup {[x |-> eqargs[i], y |-> eqargs[j], r |-> r]}
    /\ UNCHANGED <<eqargs, listVars, evalVars, exnVars, envVars, symVars, libVars>>

\* Nothing has been allocated
ExnIdle ==
    /\ objs = [dtm |-> <<>>, fatal |-> FALSE, uaf |-> FALSE]
    /\ genv = <<>>
    /\ g_last_exn = 0
    /\ seen = <<>>
    /\ returned = [scope |-> "none", sel |-> "none", live |-> TRUE]

\* No environment chain
GetIdle ==
    /\ malenvs = <<>>
    /\ latest = <<>>

\* No hash table
TblIdle ==
    /\ htbl = [cap |-> 0, size |-> 0, buckets |-> <<>>]
    /\ hmap = <<>>
    /\ hret = [op |-> "none"]

\* No comparison made, nothing printed
NumIdle ==
    /\ numop = [op |-> "none"]
    /\ rwop = [op |-> "none"]

LibIdle == GetIdle /\ TblIdle /\ NumIdle

\* The symbol table has not been made
SymIdle ==
    /\ symtab = [cap |-> 0, size |-> 0, buckets |-> <<>>]
    /\ symbols = <<>>
    /\ hashes = <<>>
    /\ calls = <<>>

\* No environment has been made
EnvIdle ==
    /\ mem = [envs |-> <<>>, procs |-> <<>>, uaf |-> FALSE, fatal |-> FALSE]
    /\ frames = <<>>
    /\ pending = 0

\* No form has been read
EvalIdle ==
    /\ interp = [crashed |-> FALSE]
    /\ last = [fam |-> "none"]
    /\ retval = 0
    /\ nreps = 0

ListIdle ==
    /\ nodes = <<>>
    /\ lists = <<[len |-> 0, head |-> 0, tail |-> 0]>>
    /\ lop = [op |-> "none", res |-> 0]

EqInit ==
    /\ eqargs \in Addr \X Addr \X Addr
    /\ cmps = {}
    /\ ListIdle
    /\ EvalIdle
    /\ ExnIdle
    /\ EnvIdle
    /\ SymIdle
    /\ LibIdle

EqNext == \E i, j \in 1..3 : lisp_eq(i, j)

SpecEq == EqInit /\ [][EqNext]_vars

\* A comparison whose outcome the language defines (no read through a
\* pointer to another variant was made)
EqDefined(c) == Cardinality(LispDatum_eq(c.x, c.y)) = 1

\* C7: (= x y) is an equivalence relation over all data, pairs of different
\* variants included: (= x x) is true, (= x y) and (= y x) give the same
\* answer, and (= x y) and (= y z) true imply (= x z) true.  Stated over the
\* comparisons whose outcome is defined.
C7_EqIsEquivalence ==
    \A c \in cmps : EqDefined(c) =>
        /\ (c.x = c.y => c.r = "true")
        /\ \A d \in cmps :
              (EqDefined(d) /\ d.x = c.y /\ d.y = c.x) => d.r = c.r
        /\ \A d, e \in cmps :
              (/\ EqDefined(d) /\ EqDefined(e)
               /\ c.r = "true" /\ d.r = "true"
               /\ d.x = c.y /\ e.x = c.x /\ e.y = d.y) => e.r = "true"

\* C8: equality on the singletons nil, true and false is identity: a
\* comparison (= a b) with a a singleton answers true only when b is that
\* same object.
C8_SingletonEqIsIdentity ==
    \A c \in cmps :
        (EqHeap[c.x].type \in Singletons /\ c.r = "true") => c.y = c.x

(***************************************************************************)
(*                        THE LIST NODE CHAINS                             *)
(*                                                                         *)
(* A List is {len, head, tail} over singly linked struct Nodes {value,     *)
(* next}; several Lists may run over the same Nodes.  A heap h is the pair *)
(* [nodes, lists]; an operation returns the heap it leaves and, as r, the  *)
(* address of the List it returns (0 for NULL).  The elements are datum    *)
(* addresses; the node reference counts and List_free are left out here:   *)
(* every list of SpecList stays bound to a name.                           *)
(***************************************************************************)
List_empty == 1

Ret(h, r) == [h |-> h, r |-> r]

\* List_new: a List with len 0 and no nodes; its address is Len(lists) + 1
List_new(h) ==
    [h EXCEPT !.lists = Append(@, [len |-> 0, head |-> 0, tail |-> 0])]

\* List_add: a fresh node holding datum, linked after list->tail
List_add(h, l, datum) ==
    LET node == Len(h.nodes) + 1
        ns   == Append(h.nodes, [value |-> datum, next |-> 0])
        L    == h.lists[l]
    IN  IF L.tail = 0
        THEN [nodes |-> ns,
              lists |-> [h.lists EXCEPT ![l] =
                            [len |-> L.len + 1, head |-> node, tail |-> node]]]
        ELSE [nodes |-> [ns EXCEPT ![L.tail].next = node],
              lists |-> [h.lists EXCEPT ![l] =
                            [len |-> L.len + 1, head |-> L.head, tail |-> node]]]

RECURSIVE List_add_all(_, _, _)
List_add_all(h, l, dtms) ==
    IF dtms = <<>> THEN h
    ELSE List_add_all(List_add(h, l, Head(dtms)), l, Tail(dtms))

\* The values met walking node->next from node n until NULL, at most fuel
\* nodes of them
RECURSIVE NodeWalk(_, _, _)
NodeWalk(ns, n, fuel) ==
    IF n = 0 \/ fuel = 0 THEN <<>>
    ELSE <<ns[n].value>> \o NodeWalk(ns, ns[n].next, fuel - 1)

\* The walk from n never reaches NULL
Cyclic(ns, n) == Len(NodeWalk(ns, n, Len(ns) + 1)) > Len(ns)

\* pr_list: the elements printed for a list, the walk of `node->next` from
\* list->head until NULL (cut after MaxNodes + 1 elements when the chain
\* is a cycle and the walk never ends)
pr_list(ns, L) == NodeWalk(ns, L.head, MaxNodes + 1)

\* List_shlw_copy: List_empty() for an empty list, else a new List with a
\* new node for every node walked from list->head
List_shlw_copy(h, l) ==
    IF h.lists[l].len = 0 THEN Ret(h, List_empty)
    ELSE LET out == Len(h.lists) + 1
         IN  Ret(List_add_all(List_new(h), out,
                              NodeWalk(h.nodes, h.lists[l].head, Len(h.nodes))),
                 out)

\* List_cons_new: a new List whose fresh first node links to list->head
List_cons_new(h, l, datum) ==
    LET out  == Len(h.lists) + 1
        node == Len(h.nodes) + 1
        L    == h.lists[l]
    IN  Ret([nodes |-> Append(h.nodes, [value |-> datum, next |-> L.head]),
             lists |-> Append(h.lists,
                          [len  |-> 1 + L.len,
                           head |-> node,
                           tail |-> IF L.head # 0 THEN L.tail ELSE node])],
            out)

\* List_rest_new: a new List over list->head->next; NULL for an empty list
List_rest_new(h, l) ==
    LET out == Len(h.lists) + 1
        L   == h.lists[l]
    IN  IF L.len = 0 THEN Ret(h, 0)
        ELSE IF L.len - 1 > 0
        THEN LET tail_head == h.nodes[L.head].next
             IN  Ret([h EXCEPT !.lists = Append(@,
                         [len |-> L.len - 1, head |-> tail_head,
                          tail |-> tail_head])], out)
        ELSE Ret(List_new(h), out)

\* List_append: links src's nodes after dst->tail, no node is copied
List_append(h, dst, src) ==
    LET D == h.lists[dst]
        S == h.lists[src]
    IN  IF S.len = 0 THEN h
        ELSE IF D.len = 0
        THEN [h EXCEPT !.lists[dst] =
                  [len |-> D.len + S.len, head |-> S.head, tail |-> S.head]]
        ELSE [nodes |-> [h.nodes EXCEPT ![D.tail].next = S.head],
              lists |-> [h.lists EXCEPT ![dst] =
                            [len |-> D.len + S.len, head |-> D.head,
                             tail |-> S.tail]]]

\* lisp_list: List_empty() without arguments, else a new List of them
lisp_list(h, dtms) ==
    IF Len(dtms) = 0 THEN Ret(h, List_empty)
    ELSE LET out == Len(h.lists) + 1
         IN  Ret(List_add_all(List_new(h), out, dtms), out)

\* lisp_cons
lisp_cons(h, datum, l) == List_cons_new(h, l, datum)

\* lisp_rest on a List, i.e. lisp_list_rest: an empty list throws and
\* returns NULL
lisp_list_rest(h, l) ==
    IF h.lists[l].len = 0 THEN Ret(h, 0) ELSE List_rest_new(h, l)

\* The loop `for (i = idxs[1]; i < args->len; i++) List_append(new_list, ..)`
RECURSIVE concat_appends(_, _, _, _)
concat_appends(h, new_list, args, i) ==
    IF i > Len(args) THEN h
    ELSE concat_appends(List_append(h, new_list, args[i]), new_list, args, i + 1)

\* lisp_concat: the positions of the first two non-empty arguments decide;
\* none: List_empty(); one: that argument itself; else a shallow copy of
\* the first with every argument from the second on appended
lisp_concat(h, args) ==
    LET nonempty == {i \in 1..Len(args) : h.lists[args[i]].len # 0}
        idx0 == CHOOSE i \in nonempty : \A k \in nonempty : i <= k
        idx1 == CHOOSE i \in nonempty \ {idx0} :
                    \A k \in nonempty \ {idx0} : i <= k
    IN  IF nonempty = {} THEN Ret(h, List_empty)
        ELSE IF Cardinality(nonempty) = 1 THEN Ret(h, args[idx0])
        ELSE LET cp == List_shlw_copy(h, args[idx0])
             IN  Ret(concat_appends(cp.h, cp.r, args, idx1), cp.r)

\* eval_quasiquote_list on a flat template: every element is either an atom
\* (added to out_list by List_add) or (splice-unquote x) with x bound to
\* the List item.l (appended to out_list by List_append).  The atoms are
\* datums of the template, item.dtm.
RECURSIVE quasiquote_loop(_, _, _)
quasiquote_loop(h, out_list, tmpl) ==
    IF tmpl = <<>> THEN h
    ELSE LET item == Head(tmpl)
         IN  quasiquote_loop(
                 IF item.k = "splice" THEN List_append(h, out_list, item.l)
                 ELSE List_add(h, out_list, item.dtm),
                 out_list, Tail(tmpl))

eval_quasiquote_list(h, tmpl) ==
    IF tmpl = <<>> THEN Ret(h, List_empty)
    ELSE LET out_list == Len(h.lists) + 1
         IN  Ret(quasiquote_loop(List_new(h), out_list, tmpl), out_list)

(***************************************************************************)
(* SpecList: a session of list operations, each result bound to a name     *)
(* (def!), so that every list made stays reachable.                        *)
(***************************************************************************)
ListHeap == [nodes |-> nodes, lists |-> lists]

SeqsUpTo(S, n) == UNION {[1..k -> S] : k \in 0..n}

\* The datums a form introduces are new objects, distinct from every
\* element so far: the k-th of them
NewDatum(k) == Len(nodes) + k

\* The step every action ends with: the heap and the record of the call
ListDone(op, ret) ==
    /\ Len(ret.h.nodes) <= MaxNodes
    /\ Len(ret.h.lists) <= MaxLists
    /\ nodes' = ret.h.nodes
    /\ lists' = ret.h.lists
    /\ lop' = [op |-> op, res |-> ret.r]
    /\ UNCHANGED <<eqVars, evalVars, exnVars, envVars, symVars, libVars>>

ListRunning == lop.op # "hang"

\* Room for nl more Lists and nn more Nodes within the bounds
ListRoom(nl, nn) ==
    /\ Len(lists) + nl <= MaxLists
    /\ Len(nodes) + nn <= MaxNodes

\* (def! x (list d1 .. dn))
DoList(n) ==
    /\ ListRunning
    /\ n > 0 => ListRoom(1, n)
    /\ ListDone("list", lisp_list(ListHeap, [k \in 1..n |-> NewDatum(k)]))

\* (def! x (cons d l))
DoCons(l) ==
    /\ ListRunning
    /\ ListRoom(1, 1)
    /\ ListDone("cons", lisp_cons(ListHeap, NewDatum(1), l))

\* (def! x (rest l))
DoRest(l) ==
    /\ ListRunning
    /\ lists[l].len > 0 => ListRoom(1, 0)
    /\ ListDone("rest", lisp_list_rest(ListHeap, l))

\* (def! x (concat l1 .. ln)); the copy loop of List_shlw_copy never ends
\* on a chain that is a cycle
DoConcat(args) ==
    /\ ListRunning
    /\ LET nonempty == {i \in 1..Len(args) : lists[args[i]].len # 0}
       IN  IF /\ Cardinality(nonempty) >= 2
              /\ \E i \in nonempty :
                    /\ \A k \in nonempty : i <= k
                    /\ Cyclic(nodes, lists[args[i]].head)
           THEN /\ lop' = [op |-> "hang", res |-> 0]
                /\ UNCHANGED <<eqVars, evalVars, exnVars, envVars, nodes, lists, symVars, libVars>>
           ELSE /\ Cardinality(nonempty) >= 2 => ListRoom(1, 1)
                /\ ListDone("concat", lisp_concat(ListHeap, args))

\* (def! x (quasiquote (.. (splice-unquote l) ..))), shape[i] = 0 for an
\* atom of the template and l > 0 for (splice-unquote l)
DoQuasiquote(shape) ==
    /\ ListRunning
    /\ shape # <<>>
    /\ ListRoom(1, Cardinality({i \in 1..Len(shape) : shape[i] = 0}))
    /\ LET tmpl == [i \in 1..Len(shape) |->
                      IF shape[i] = 0
                      THEN [k |-> "atom", dtm |-> NewDatum(i), l |-> 0]
                      ELSE [k |-> "splice", dtm |-> 0, l |-> shape[i]]]
       IN  ListDone("quasiquote", eval_quasiquote_list(ListHeap, tmpl))

ListInit ==
    /\ ListIdle
    /\ eqargs = <<1, 1, 1>>
    /\ cmps = {}
    /\ EvalIdle
    /\ ExnIdle
    /\ EnvIdle
    /\ SymIdle
    /\ LibIdle

ListNext ==
    \/ \E n \in 0..MaxListArgs : DoList(n)
    \/ \E l \in 1..Len(lists) : DoCons(l)
    \/ \E l \in 1..Len(lists) : DoRest(l)
    \/ \E args \in SeqsUpTo(1..Len(lists), MaxArgs) : DoConcat(args)
    \/ \E shape \in SeqsUpTo(0..Len(lists), MaxArgs) : DoQuasiquote(shape)

SpecList == ListInit /\ [][ListNext]_vars

\* C6: a List is immutable from the user's view: a step of cons, rest,
\* concat or quasiquote with splice-unquote leaves every list that existed
\* before it with the same length and the same element sequence (as
\* printed, the walk from its head).
C6_ListsImmutable ==
    [][\A l \in 1..Len(lists) :
          /\ lists'[l].len = lists[l].len
          /\ pr_list(nodes', lists'[l]) = pr_list(nodes, lists[l])]_vars

\* Every list holds as many elements as its len says: the walk from its
\* head ends after len nodes
ListsWellFormed ==
    \A l \in 1..Len(lists) : Len(pr_list(nodes, lists[l])) = lists[l].len

\* The elements a template stands for: the new datum of an atom, the
\* elements of the list a splice-unquote names, in template order
RECURSIVE QuasiquoteElems(_, _)
QuasiquoteElems(shape, i) ==
    IF i > Len(shape) THEN <<>>
    ELSE (IF shape[i] = 0 THEN <<NewDatum(i)>>
          ELSE pr_list(nodes, lists[shape[i]]))
         \o QuasiquoteElems(shape, i + 1)

\* C13: quasiquote of a list template yields a list in template order in
\* which (splice-unquote y) contributes all elements of the value of y, in
\* order, and every other element contributes exactly one element, for
\* every list value of y (made by list, cons, rest, concat or quasiquote)
\* and also when template elements follow the splice.
C13_QuasiquoteSplices ==
    [][\A shape \in SeqsUpTo(0..Len(lists), MaxArgs) :
          (ListsWellFormed /\ DoQuasiquote(shape)) =>
              /\ lists'[lop'.res].len = Len(QuasiquoteElems(shape, 1))
              /\ pr_list(nodes', lists'[lop'.res]) = QuasiquoteElems(shape, 1)]_vars

\* The nodes met walking node->next from node n until NULL, at most fuel
\* of them
RECURSIVE NodeChain(_, _, _)
NodeChain(ns, n, fuel) ==
    IF n = 0 \/ fuel = 0 THEN <<>>
    ELSE <<n>> \o NodeChain(ns, ns[n].next, fuel - 1)

\* C27: every list reachable after any sequence of list, cons, rest, concat
\* and quasiquote-splice operations is well formed: its len is the number
\* of nodes reachable from its head by next links and its tail is the last
\* of those nodes (both null for the empty list)
C27_ListsWellFormed ==
    \A l \in 1..Len(lists) :
        LET ch == NodeChain(nodes, lists[l].head, MaxNodes + 1)
        IN  /\ Len(ch) = lists[l].len
            /\ lists[l].tail = IF ch = <<>> THEN 0 ELSE ch[Len(ch)]

(***************************************************************************)
(*                            THE EVALUATOR                                *)
(*                                                                         *)
(* A datum is a record of one field, named by its type; a form is a datum. *)
(* A Procedure datum refers to an entry of st.procs, an environment is an  *)
(* entry of st.envs.  The interpreter state st also holds g_lastfail and   *)
(* g_last_exn.dtm, the lines prn wrote and whether the process has faulted *)
(* (a NULL pointer was dereferenced).  Every evaluation step returns       *)
(* Res(v, st): the datum it returns (NULL for a NULL pointer) and the      *)
(* state it leaves.  Reference counts and deallocation are modelled apart, *)
(* in SpecExn and SpecEnv.                                                 *)
(***************************************************************************)
NULL == [null |-> TRUE]
Sym(name) == [sym |-> name]
Num(n) == [num |-> n]
Str(str) == [str |-> str]
Lst(elems) == [list |-> elems]
Exn(dtm) == [exn |-> dtm]
ProcRef(id) == [proc |-> id]
AtomRef(id) == [atom |-> id]
Nil == [nil |-> TRUE]
True == [true |-> TRUE]
False == [false |-> TRUE]

LispDatum_istype(dtm, type) == DOMAIN dtm = {type}

\* A NULL Symbol pointer, as the name of an unnamed procedure and as the
\* parameter Arr_get returns past the end of proc->params
NoName == ""

Res(v, st) == [v |-> v, st |-> st]

\* A NULL pointer was dereferenced: the process is gone
Fault(st) == Res(NULL, [st EXCEPT !.crashed = TRUE])

\* A variant of error that leaves g_lastfail as it was
errorMut(st) == st

\* error: g_lastfail = LF_ERROR (the message goes to stderr)
error(st) == [st EXCEPT !.lastfail = "error"]

\* A variant of throw that stores the datum and leaves g_lastfail as it was
throwMut(st, dtm) == [st EXCEPT !.last_exn = dtm]

\* throw: g_lastfail = LF_EXCEPTION, g_last_exn.dtm = a copy of the datum
throw(st, dtm) == [st EXCEPT !.lastfail = "exception", !.last_exn = dtm]

\* A variant of throwf that reports through error
throwfMut(st, msg) == error(st)

\* throwf: throw of a String holding the formatted message
throwf(st, msg) == throw(st, Str(msg))

\* didthrow
didthrow(st) == st.lastfail = "exception"

\* thrown_copy: Exception_new(g_last_exn.dtm)
thrown_copy(st) == Exn(st.last_exn)

\* MalEnv_own (nothing to own for a NULL pointer)
Frame_own(st, env) ==
    IF env = 0 THEN st ELSE [st EXCEPT !.envs[env].refc = @ + 1]

\* MalEnv_free as far as the environments go: refused while the count is
\* positive, else the frame is freed and the enclosing one released.  The
\* values bound in the frame are not deallocated here, so the counts of
\* the frames that closures were created in are upper bounds.
Frame_free(st, env) ==
    IF st.envs[env].freed \/ st.envs[env].refc > 0 THEN st
    ELSE IF st.envs[env].enclosing = 0
    THEN [st EXCEPT !.envs[env].freed = TRUE]
    ELSE [st EXCEPT !.envs[env].freed = TRUE,
                    !.envs[st.envs[env].enclosing].refc = @ - 1]

\* The frames other than the root that are allocated
LiveFrames(st) == Cardinality({e \in 2..Len(st.envs) : ~st.envs[e].freed})

\* maxlive is the largest number of frames allocated at the same time
\* since the form was read
Frame_count(st) ==
    [st EXCEPT !.maxlive = IF LiveFrames(st) > @ THEN LiveFrames(st) ELSE @]

\* A variant of MalEnv_new whose frame encloses the frame made last
MalEnv_newMut(st, enclosing) ==
    Frame_count([Frame_own(st, Len(st.envs)) EXCEPT
        !.envs = Append(@, [binds |-> <<>>, enclosing |-> Len(st.envs),
                            refc |-> 0, freed |-> FALSE])])

\* MalEnv_new: a frame without bindings over enclosing (0 for NULL), count
\* 0, the enclosing frame is owned; the new frame is Len(envs) + 1
MalEnv_new(st, enclosing) ==
    Frame_count([Frame_own(st, enclosing) EXCEPT
        !.envs = Append(@, [binds |-> <<>>, enclosing |-> enclosing,
                            refc |-> 0, freed |-> FALSE])])

\* HashTbl_get on env->binds: binds is a sequence of <<key, value>>
HashTbl_has(binds, id) == \E i \in 1..Len(binds) : binds[i][1] = id
HashTbl_get(binds, id) ==
    binds[CHOOSE i \in 1..Len(binds) : binds[i][1] = id][2]

\* HashTbl_put: the old bucket of the key is popped, the new one added
HashTbl_put(binds, id, datum) ==
    IF HashTbl_has(binds, id)
    THEN [i \in 1..Len(binds) |->
             IF binds[i][1] = id THEN <<id, datum>> ELSE binds[i]]
    ELSE Append(binds, <<id, datum>>)

\* MalEnv_put: names an unnamed procedure after id, then binds id; a NULL
\* id is dereferenced by Proc_set_name / hash_symbol
MalEnv_put(st, env, id, datum) ==
    IF id = NoName THEN Fault(st)
    ELSE LET st1 == IF LispDatum_istype(datum, "proc") /\ st.procs[datum.proc].name = NoName
                    THEN [st EXCEPT !.procs[datum.proc].name = id]
                    ELSE st
         IN  Res(datum,
                 [st1 EXCEPT !.envs[env].binds = HashTbl_put(@, id, datum)])

\* MalEnv_get: the innermost binding of id from env outwards, else NULL
RECURSIVE MalEnv_get(_, _, _)
MalEnv_get(st, env, id) ==
    IF env = 0 THEN NULL
    ELSE IF HashTbl_has(st.envs[env].binds, id)
    THEN HashTbl_get(st.envs[env].binds, id)
    ELSE MalEnv_get(st, st.envs[env].enclosing, id)

\* Arr_get: NULL past the end of the array
Arr_get(arr, i, null) == IF i > Len(arr) THEN null ELSE arr[i]

RECURSIVE eval(_, _, _)
RECURSIVE eval_loop(_, _, _, _)
RECURSIVE apply_proc(_, _, _, _)

\* A variant of verify_proc_application that refuses too few arguments only
verify_proc_applicationMut(proc, args) ==
    ~(Len(args) < proc.argc)

\* verify_proc_application: too few arguments, or too many for a
\* procedure that is not variadic
verify_proc_application(proc, args) ==
    ~(Len(args) < proc.argc \/ (~proc.variadic /\ Len(args) > proc.argc))

\* lisp_sub, the loop over the arguments after the first: Number_sub
RECURSIVE Number_sub(_, _)
Number_sub(val, args) ==
    IF args = <<>> THEN val ELSE Number_sub(val - Head(args).num, Tail(args))

\* lisp_add, the loop over the arguments after the first: Number_add
RECURSIVE Number_add(_, _)
Number_add(val, args) ==
    IF args = <<>> THEN val ELSE Number_add(val + Head(args).num, Tail(args))

\* lisp_list_ref: (list-ref list idx)
lisp_list_ref(proc, args, env, st) ==
    IF ~LispDatum_istype(args[1], "list") THEN Res(NULL, throwf(st, "bad arg"))
    ELSE IF ~LispDatum_istype(args[2], "num") THEN Res(NULL, throwf(st, "bad arg"))
    ELSE IF args[2].num < 0
    THEN Res(NULL, throwf(st, "expected non-negative index"))
    ELSE IF args[2].num >= Len(args[1].list)
    THEN Res(NULL, throwf(st, "index too large"))
    ELSE Res(args[1].list[args[2].num + 1], st)

\* lisp_deref: Atom_deref of an Atom
lisp_deref(proc, args, env, st) ==
    IF ~LispDatum_istype(args[1], "atom") THEN Res(NULL, throwf(st, "bad arg"))
    ELSE Res(st.atoms[args[1].atom], st)

\* A variant of Atom_set that keeps the old value
Atom_setMut(st, atom, dtm) == st

\* Atom_set: nothing when the atom holds dtm already; else the old value
\* is released and dtm is owned, a NULL dtm is dereferenced by LispDatum_own
Atom_set(st, atom, dtm) ==
    IF st.atoms[atom] = dtm THEN st
    ELSE IF dtm = NULL THEN [st EXCEPT !.atoms[atom] = NULL, !.crashed = TRUE]
    ELSE [st EXCEPT !.atoms[atom] = dtm]

\* lisp_apply: (apply f interm... arg-list) applies f to the intermediate
\* arguments followed by the elements of arg-list
lisp_apply(proc, args, env, st) ==
    IF ~LispDatum_istype(args[1], "proc") THEN Res(NULL, throwf(st, "bad arg"))
    ELSE IF ~LispDatum_istype(args[Len(args)], "list")
    THEN Res(NULL, throwf(st, "bad last arg"))
    ELSE apply_proc(args[1].proc,
                    SubSeq(args, 2, Len(args) - 1) \o args[Len(args)].list,
                    env, st)

\* lisp_swap_bang, after the application: the atom is set to its result
swap_set(rslt, atom) ==
    IF rslt.st.crashed THEN rslt
    ELSE Res(rslt.v, Atom_set(rslt.st, atom, rslt.v))

\* lisp_swap_bang: (swap! atom f args...) applies f to the atom's value
\* followed by args and stores the result in the atom
lisp_swap_bang(proc, args, env, st) ==
    IF ~LispDatum_istype(args[1], "atom") THEN Res(NULL, throwf(st, "bad arg"))
    ELSE IF ~LispDatum_istype(args[2], "proc") THEN Res(NULL, throwf(st, "bad arg"))
    ELSE LET proc_args == <<st.atoms[args[1].atom]>> \o SubSeq(args, 3, Len(args))
         IN  IF verify_proc_application(st.procs[args[2].proc], proc_args)
             THEN swap_set(apply_proc(args[2].proc, proc_args, env, st),
                           args[1].atom)
             ELSE Res(NULL, throwf(st, "arity"))

\* A variant of MalEnv_enclosing_root that stays where it is
MalEnv_enclosing_rootMut(st, env) == env

\* MalEnv_enclosing_root: `while (env->enclosing) env = env->enclosing`
RECURSIVE MalEnv_enclosing_root(_, _)
MalEnv_enclosing_root(st, env) ==
    IF st.envs[env].enclosing = 0 THEN env
    ELSE MalEnv_enclosing_root(st, st.envs[env].enclosing)

\* lisp_eval: (eval ast) evaluates ast in the root of env's chain
lisp_eval(proc, args, env, st) ==
    eval(args[1], MalEnv_enclosing_root(st, env), st)

\* The builtins of core_def_procs and main the model carries: list, prn,
\* cons, throw, atom, deref, list-ref, +, - and > (on the small numbers of
\* the forms read here), apply, eval and swap!
builtin_apply(proc, args, env, st) ==
    CASE proc.apply = "list"  -> Res(Lst(args), st)
      [] proc.apply = "prn"   -> Res(Nil, [st EXCEPT !.printed = Append(@, args)])
      [] proc.apply = "cons"  ->
            IF ~LispDatum_istype(args[2], "list") THEN Res(NULL, throwf(st, "bad arg"))
            ELSE Res(Lst(<<args[1]>> \o args[2].list), st)
      [] proc.apply = "throw" -> Res(NULL, throw(st, args[1]))
      [] proc.apply = "atom"  ->
            Res(AtomRef(Len(st.atoms) + 1), [st EXCEPT !.atoms = Append(@, args[1])])
      [] proc.apply = "apply" -> lisp_apply(proc, args, env, st)
      [] proc.apply = "eval"  -> lisp_eval(proc, args, env, st)
      [] proc.apply = "swap!" -> lisp_swap_bang(proc, args, env, st)
      [] proc.apply = "deref" -> lisp_deref(proc, args, env, st)
      [] proc.apply = "list-ref" -> lisp_list_ref(proc, args, env, st)
      [] proc.apply = "+"     ->
            IF \E i \in 1..Len(args) : ~LispDatum_istype(args[i], "num")
            THEN Res(NULL, throwf(st, "bad arg"))
            ELSE Res(Num(Number_add(args[1].num, Tail(args))), st)
      [] proc.apply = "-"     ->
            IF \E i \in 1..Len(args) : ~LispDatum_istype(args[i], "num")
            THEN Res(NULL, throwf(st, "bad arg"))
            ELSE Res(Num(Number_sub(args[1].num, Tail(args))), st)
      [] proc.apply = ">"     ->
            IF \E i \in 1..Len(args) : ~LispDatum_istype(args[i], "num")
            THEN Res(NULL, throwf(st, "bad arg"))
            ELSE Res(IF args[1].num > args[2].num THEN True ELSE False, st)

\* eval_list: a new list of the values of the elements, in order; NULL as
\* soon as one element evaluates to NULL
RECURSIVE eval_list_loop(_, _, _, _)

\* eval_list, after an element has been evaluated to evaled
eval_list_add(evaled, elems, out, env) ==
    IF evaled.v = NULL THEN Res(NULL, evaled.st)
    ELSE eval_list_loop(Tail(elems), Append(out, evaled.v), env, evaled.st)

eval_list_loop(elems, out, env, st) ==
    IF elems = <<>> THEN Res(Lst(out), st)
    ELSE eval_list_add(eval(Head(elems), env, st), elems, out, env)

eval_list(list, env, st) == eval_list_loop(list.list, <<>>, env, st)

\* eval_ast: a symbol is looked up (unbound: throwf), a list is evaluated
\* element by element, any other datum evaluates to its LispDatum_copy, for
\* an Atom a new Atom holding the same value
eval_ast(datum, env, st) ==
    CASE LispDatum_istype(datum, "sym") ->
            LET assoc == MalEnv_get(st, env, datum.sym)
            IN  IF assoc = NULL
                THEN Res(NULL, throwf(st, "symbol binding not found"))
                ELSE Res(assoc, st)
      [] LispDatum_istype(datum, "list") -> eval_list(datum, env, st)
      [] LispDatum_istype(datum, "atom") ->
            Res(AtomRef(Len(st.atoms) + 1),
                [st EXCEPT !.atoms = Append(@, st.atoms[datum.atom])])
      [] OTHER -> Res(datum, st)

\* apply_proc, step 1: the mandatory parameters, params[i] to args[i]
RECURSIVE bind_mandatory(_, _, _, _, _)
bind_mandatory(st, proc_env, proc, args, i) ==
    IF i > proc.argc THEN st
    ELSE bind_mandatory(MalEnv_put(st, proc_env, proc.params[i], args[i]).st,
                        proc_env, proc, args, i + 1)

\* apply_proc, step 2: every body form but the last is evaluated and its
\* value handed to LispDatum_free, which reads through the pointer without
\* a NULL check; the value of the last form is returned
RECURSIVE apply_body(_, _, _)

\* apply_proc, after a body form before the last has been evaluated
apply_body_free(evaled, body, proc_env) ==
    IF evaled.st.crashed THEN evaled
    ELSE IF evaled.v = NULL THEN Fault(evaled.st)
    ELSE apply_body(Tail(body), proc_env, evaled.st)

apply_body(body, proc_env, st) ==
    IF Len(body) = 1 THEN eval(body[1], proc_env, st)
    ELSE apply_body_free(eval(body[1], proc_env, st), body, proc_env)

\* The end of apply_proc, eval_letstar and eval_try_star:
\* MalEnv_free(proc_env / let_env / catch_env), then the value is returned
leave_frame(r, env) ==
    IF r.st.crashed THEN r ELSE Res(r.v, Frame_free(r.st, env))

\* apply_proc, the variadic parameter: the rest of the arguments in a list
bind_variadic(st, proc_env, proc, args) ==
    IF proc.variadic
    THEN MalEnv_put(st, proc_env, proc.params[Len(proc.params)],
                    Lst(SubSeq(args, proc.argc + 1, Len(args)))).st
    ELSE st

\* apply_proc in its new frame proc_env, the last one made in st
apply_in(proc, args, st) ==
    leave_frame(
        apply_body(proc.body, Len(st.envs),
                   bind_variadic(bind_mandatory(st, Len(st.envs), proc, args, 1),
                                 Len(st.envs), proc, args)),
        Len(st.envs))

\* apply_proc: procedure application without TCO
apply_proc(pid, args, env, st) ==
    LET proc == st.procs[pid]
    IN  IF ~verify_proc_application(proc, args)
        THEN Res(NULL, throwf(st, "arity"))
        ELSE IF proc.builtin THEN builtin_apply(proc, args, env, st)
        ELSE apply_in(proc, args, MalEnv_new(st, proc.env))

\* eval_application_tco, the loop `for (i = 0; i < args->len; i++)`:
\* Arr_get(proc->params, i) is bound to args->items[i]
RECURSIVE tco_bind(_, _, _, _, _)
tco_bind(st, env, proc, args, i) ==
    IF i > Len(args) THEN Res(Nil, st)
    ELSE LET r == MalEnv_put(st, env, Arr_get(proc.params, i, NoName), args[i])
         IN  IF r.st.crashed THEN r
             ELSE tco_bind(r.st, env, proc, args, i + 1)

\* eval_application_tco, the body: NULL when a form before the last
\* evaluates to NULL, else the last form, unevaluated
RECURSIVE tco_body(_, _, _)

\* eval_application_tco, after a body form before the last has been
\* evaluated
tco_body_free(evaled, body, env) ==
    IF evaled.v = NULL THEN Res(NULL, evaled.st)
    ELSE tco_body(Tail(body), env, evaled.st)

tco_body(body, env, st) ==
    IF Len(body) = 1 THEN Res(body[1], st)
    ELSE tco_body_free(eval(body[1], env, st), body, env)

eval_application_tco(proc, args, env, st) ==
    IF ~verify_proc_application(proc, args)
    THEN Res(NULL, throwf(st, "arity"))
    ELSE LET b == tco_bind(st, env, proc, args, 1)
         IN  IF b.st.crashed THEN b ELSE tco_body(proc.body, env, b.st)

\* BADSTX: error("bad syntax: ..."), the form evaluates to NULL
BADSTX(st) == Res(NULL, error(st))

\* eval_if: the branch to evaluate next, unevaluated (nil when the
\* condition is false and there is no else branch)
eval_if_branch(list, ev_cond) ==
    IF ev_cond.v = NULL THEN ev_cond
    ELSE IF ~LispDatum_istype(ev_cond.v, "nil") /\ ~LispDatum_istype(ev_cond.v, "false")
    THEN Res(list.list[3], ev_cond.st)
    ELSE IF Len(list.list) - 1 = 3 THEN Res(list.list[4], ev_cond.st)
    ELSE Res(Nil, ev_cond.st)

eval_if(list, env, st) ==
    IF Len(list.list) - 1 < 2 \/ Len(list.list) - 1 > 3 THEN BADSTX(st)
    ELSE eval_if_branch(list, eval(list.list[2], env, st))

\* eval_do: NULL as soon as a form before the last evaluates to NULL
RECURSIVE do_loop(_, _, _)

\* eval_do, after a form before the last has been evaluated
do_next(ev, forms, env) ==
    IF ev.v = NULL THEN ev ELSE do_loop(Tail(forms), env, ev.st)

do_loop(forms, env, st) ==
    IF Len(forms) = 1 THEN eval(forms[1], env, st)
    ELSE do_next(eval(forms[1], env, st), forms, env)

eval_do(list, env, st) ==
    IF Len(list.list) - 1 = 0 THEN BADSTX(st)
    ELSE do_loop(Tail(list.list), env, st)

\* The position of the first parameter named &, 0 if there is none
FirstAmp(params) ==
    IF \E i \in 1..Len(params) : params[i].sym = "&"
    THEN CHOOSE i \in 1..Len(params) :
             /\ params[i].sym = "&"
             /\ \A k \in 1..(i - 1) : params[k].sym # "&"
    ELSE 0

\* eval_fnstar: validates the parameter list and makes an unnamed Proc
\* closing over env (Proc_new owns env); its address is Len(procs) + 1
eval_fnstar(list, env, st) ==
    IF Len(list.list) - 1 < 2 THEN BADSTX(st)
    ELSE IF ~LispDatum_istype(list.list[2], "list") THEN BADSTX(st)
    ELSE LET params == list.list[2].list
             amp == FirstAmp(params)
             n == Len(params)
         IN  IF \E i \in 1..n : ~LispDatum_istype(params[i], "sym") THEN BADSTX(st)
             ELSE IF amp # 0 /\ amp # n - 1 THEN BADSTX(st)
             ELSE LET names == IF amp = 0
                               THEN [i \in 1..n |-> params[i].sym]
                               ELSE [i \in 1..amp |->
                                        IF i < amp THEN params[i].sym
                                        ELSE params[n].sym]
                      proc == [builtin |-> FALSE, apply |-> "",
                               argc |-> IF amp = 0 THEN n ELSE amp - 1,
                               variadic |-> amp # 0,
                               params |-> names,
                               body |-> SubSeq(list.list, 3, Len(list.list)),
                               env |-> env, name |-> NoName, macro |-> FALSE]
                  IN  Res(ProcRef(Len(st.procs) + 1),
                          [Frame_own(st, env) EXCEPT !.procs = Append(@, proc)])

\* eval_def, after the value has been evaluated: bound to id in env
def_put(new_assoc, env, id) ==
    IF new_assoc.v = NULL THEN new_assoc
    ELSE MalEnv_put(new_assoc.st, env, id, new_assoc.v)

\* A variant of eval_def that binds in the root environment
eval_defMut(list, env, st) ==
    IF Len(list.list) - 1 # 2 THEN BADSTX(st)
    ELSE IF ~LispDatum_istype(list.list[2], "sym") THEN BADSTX(st)
    ELSE def_put(eval(list.list[3], env, st), 1, list.list[2].sym)

\* eval_def: (def! id value)
eval_def(list, env, st) ==
    IF Len(list.list) - 1 # 2 THEN BADSTX(st)
    ELSE IF ~LispDatum_istype(list.list[2], "sym") THEN BADSTX(st)
    ELSE def_put(eval(list.list[3], env, st), env, list.list[2].sym)

\* eval_defmacro, after the lambda has been evaluated: the procedure is
\* marked as a macro and bound to id
defmacro_put(evaled, env, id) ==
    IF evaled.v = NULL THEN evaled
    ELSE IF ~LispDatum_istype(evaled.v, "proc") THEN BADSTX(evaled.st)
    ELSE MalEnv_put([evaled.st EXCEPT !.procs[evaled.v.proc].macro = TRUE],
                    env, id, evaled.v)

\* eval_defmacro: (defmacro! id (lambda ...))
eval_defmacro(list, env, st) ==
    IF Len(list.list) - 1 # 2 THEN BADSTX(st)
    ELSE IF ~LispDatum_istype(list.list[2], "sym") THEN BADSTX(st)
    ELSE LET arg2 == list.list[3]
         IN  IF ~LispDatum_istype(arg2, "list") THEN BADSTX(st)
             ELSE IF arg2.list = <<>> THEN BADSTX(st)
             ELSE IF arg2.list[1] # Sym("lambda") THEN BADSTX(st)
             ELSE defmacro_put(eval(arg2, env, st), env, list.list[2].sym)

\* eval_letstar, the loop over the bindings ((id val) ...)
RECURSIVE letstar_loop(_, _, _)

\* a binding's value evaluated to val: bound to id, then the next binding
letstar_put(val, id, bindings, let_env) ==
    IF val.v = NULL THEN val
    ELSE letstar_loop(Tail(bindings), let_env,
                      MalEnv_put(val.st, let_env, id, val.v).st)

letstar_loop(bindings, let_env, st) ==
    IF bindings = <<>> THEN Res(Nil, st)
    ELSE IF ~LispDatum_istype(Head(bindings), "list") THEN BADSTX(st)
    ELSE IF Len(Head(bindings).list) # 2 THEN BADSTX(st)
    ELSE IF ~LispDatum_istype(Head(bindings).list[1], "sym") THEN BADSTX(st)
    ELSE letstar_put(eval(Head(bindings).list[2], let_env, st),
                     Head(bindings).list[1].sym, bindings, let_env)

\* eval_letstar: (let* (bindings) expr) in a new frame over env
\* eval_letstar, the bindings made (b): the expression is evaluated in
\* let_env, which is then freed
letstar_expr(b, expr, let_env) ==
    IF b.v = NULL THEN leave_frame(b, let_env)
    ELSE leave_frame(eval(expr, let_env, b.st), let_env)

\* eval_letstar in its new frame let_env, the last one made in st
letstar_in(list, st) ==
    letstar_expr(letstar_loop(list.list[2].list, Len(st.envs), st),
                 list.list[3], Len(st.envs))

eval_letstar(list, env, st) ==
    IF Len(list.list) - 1 # 2 THEN BADSTX(st)
    ELSE IF ~LispDatum_istype(list.list[2], "list") THEN BADSTX(st)
    ELSE IF list.list[2].list = <<>> THEN BADSTX(st)
    ELSE letstar_in(list, MalEnv_new(st, env))

\* eval_quote
eval_quote(list, env, st) ==
    IF Len(list.list) - 1 # 1 THEN BADSTX(st) ELSE Res(list.list[2], st)

\* The result of a macro expansion step: same says that the pointer
\* returned is the pointer handed in
MRes(v, st, same) == [v |-> v, st |-> st, same |-> same]

\* The value a macro returned, a new datum
expansion(out) == MRes(out.v, out.st, FALSE)

\* macroexpand_single: a list headed by a symbol that env binds to a macro
\* is replaced by the macro applied (apply_proc) to the unevaluated tail
macroexpand_single(ast, env, st) ==
    IF ~LispDatum_istype(ast, "list") THEN MRes(ast, st, TRUE)
    ELSE IF ast.list = <<>> THEN MRes(ast, st, TRUE)
    ELSE IF ~LispDatum_istype(ast.list[1], "sym") THEN MRes(ast, st, TRUE)
    ELSE LET datum == MalEnv_get(st, env, ast.list[1].sym)
         IN  IF datum # NULL /\ LispDatum_istype(datum, "proc") /\ st.procs[datum.proc].macro
             THEN expansion(apply_proc(datum.proc, Tail(ast.list), env, st))
             ELSE MRes(ast, st, TRUE)

\* macroexpand: macroexpand_single until it returns what it was given;
\* same tells whether the result is the form macroexpand was called with
RECURSIVE macroexpand_loop(_, _, _, _)

\* macroexpand, after one macroexpand_single of out
macroexpand_again(expanded, out, env, same) ==
    IF expanded.v = NULL THEN MRes(NULL, expanded.st, FALSE)
    ELSE IF expanded.same THEN MRes(out, expanded.st, same)
    ELSE macroexpand_loop(expanded.v, env, expanded.st, FALSE)

macroexpand_loop(out, env, st, same) ==
    macroexpand_again(macroexpand_single(out, env, st), out, env, same)

macroexpand(ast, env, st) == macroexpand_loop(ast, env, st, TRUE)

expanded_value(m) == Res(m.v, m.st)

\* eval_macroexpand: the special form (macroexpand form)
eval_macroexpand(list, env, st) ==
    IF Len(list.list) - 1 # 1 THEN BADSTX(st)
    ELSE expanded_value(macroexpand(list.list[2], env, st))

\* eval_try_star, the handler in its new frame catch_env, the last one made
\* in st: the symbol is bound to a copy of the thrown exception, expr2 is
\* evaluated, catch_env is freed
try_handler(catch_form, st) ==
    leave_frame(eval(catch_form.list[3], Len(st.envs),
                     MalEnv_put(st, Len(st.envs), catch_form.list[2].sym,
                                thrown_copy(st)).st),
                Len(st.envs))

\* eval_try_star, after expr1 has been evaluated to expr1_rslt
try_catch(expr1_rslt, catch_form, env) ==
    IF /\ ~expr1_rslt.st.crashed
       /\ expr1_rslt.v = NULL
       /\ didthrow(expr1_rslt.st)
    THEN try_handler(catch_form, MalEnv_new(expr1_rslt.st, env))
    ELSE expr1_rslt

\* eval_try_star: (try* expr1 (catch* sym expr2)); the handler runs when
\* expr1 evaluated to NULL and the last failure was an exception
eval_try_star(list, env, st) ==
    IF Len(list.list) - 1 # 2 THEN BADSTX(st)
    ELSE LET catch_form == list.list[3]
         IN  IF ~LispDatum_istype(catch_form, "list") THEN BADSTX(st)
             ELSE IF Len(catch_form.list) # 3 THEN BADSTX(st)
             ELSE IF catch_form.list[1] # Sym("catch*") THEN BADSTX(st)
             ELSE IF ~LispDatum_istype(catch_form.list[2], "sym") THEN BADSTX(st)
             ELSE try_catch(eval(list.list[2], env, st), catch_form, env)

\* eval_unquote: (unquote x) evaluates x
eval_unquote(list, env, st) ==
    IF Len(list.list) - 1 # 1 THEN BADSTX(st)
    ELSE eval(list.list[2], env, st)

\* eval_splice_unquote: (splice-unquote x), x must evaluate to a list
eval_splice_unquote(list, env, st) ==
    IF Len(list.list) - 1 # 1 THEN BADSTX(st)
    ELSE LET evaled == eval(list.list[2], env, st)
         IN  IF evaled.v = NULL THEN evaled
             ELSE IF ~LispDatum_istype(evaled.v, "list") THEN BADSTX(evaled.st)
             ELSE evaled

\* eval_quasiquote_list on values: the template's elements in order, a
\* nested list replaced by its own expansion, spliced in when it was a
\* splice-unquote form (the node chains it builds are in SpecList)
RECURSIVE quasiquote_value(_, _, _)
RECURSIVE quasiquote_items(_, _, _, _)
quasiquote_value(list, env, st) ==
    IF list.list = <<>> THEN MRes(Lst(<<>>), st, FALSE)
    ELSE IF list.list[1] = Sym("unquote")
    THEN LET u == eval_unquote(list, env, st) IN MRes(u.v, u.st, FALSE)
    ELSE IF list.list[1] = Sym("splice-unquote")
    THEN LET u == eval_splice_unquote(list, env, st)
         IN  MRes(u.v, u.st, u.v # NULL)
    ELSE quasiquote_items(list.list, <<>>, env, st)

quasiquote_items(elems, out_list, env, st) ==
    IF elems = <<>> THEN MRes(Lst(out_list), st, FALSE)
    ELSE LET dtm == Head(elems)
         IN  IF LispDatum_istype(dtm, "list")
             THEN LET evaled == quasiquote_value(dtm, env, st)
                  IN  IF evaled.v = NULL THEN MRes(NULL, evaled.st, FALSE)
                      ELSE IF evaled.same
                      THEN quasiquote_items(Tail(elems),
                               out_list \o evaled.v.list, env, evaled.st)
                      ELSE quasiquote_items(Tail(elems),
                               Append(out_list, evaled.v), env, evaled.st)
             ELSE quasiquote_items(Tail(elems), Append(out_list, dtm), env, st)

\* eval_quasiquote: (quasiquote template)
eval_quasiquote(list, env, st) ==
    IF Len(list.list) - 1 # 1 THEN BADSTX(st)
    ELSE LET ast == list.list[2]
         IN  IF ~LispDatum_istype(ast, "list") THEN Res(ast, st)
             ELSE IF ast.list = <<>> THEN Res(ast, st)
             ELSE IF ast.list[1] = Sym("splice-unquote") THEN BADSTX(st)
             ELSE LET out == quasiquote_value(ast, env, st)
                  IN  Res(out.v, out.st)

\* eval, after `while (ast)`: the environment of the last tail call is
\* freed, if there is one
eval_end(r, env, apply_env) ==
    IF apply_env = env \/ r.st.crashed THEN r
    ELSE Res(r.v, Frame_free(r.st, apply_env))

\* A variant of free_previous that keeps the environment
free_previousMut(st, env, apply_env) == st

\* eval, `if (apply_env != env) MalEnv_free(apply_env)`: the environment
\* of the previous application, once the argument values are there
free_previous(st, env, apply_env) ==
    IF apply_env = env THEN st ELSE Frame_free(st, apply_env)

\* eval, the procedure application at the end of the loop body: the list
\* is evaluated in apply_env; a named procedure that is not builtin is
\* rewritten (a new apply_env, ast = its last body form, next cycle), any
\* other is applied by apply_proc
eval_next(ast, env, apply_env) == eval_loop(ast.v, env, apply_env, ast.st)

\* the named procedure: st holds the new environment, the last one made
eval_named(proc, args, env, st) ==
    eval_next(eval_application_tco(st.procs[proc], args, Len(st.envs), st),
              env, Len(st.envs))

\* first applied to args, the previous apply_env freed in st
eval_apply(first, args, env, st) ==
    IF ~st.procs[first.proc].builtin /\ st.procs[first.proc].name # NoName
    THEN eval_named(first.proc, args, env,
                    MalEnv_new(st, st.procs[first.proc].env))
    ELSE apply_proc(first.proc, args, env, st)

\* the list evaluated to evaled_list
eval_evaled(evaled_list, env, apply_env) ==
    IF evaled_list.v = NULL THEN eval_end(evaled_list, env, apply_env)
    ELSE IF ~LispDatum_istype(evaled_list.v.list[1], "proc")
    THEN eval_end(Res(NULL, throwf(evaled_list.st,
                          "application: expected a procedure")),
                  env, apply_env)
    ELSE eval_apply(evaled_list.v.list[1], Tail(evaled_list.v.list), env,
                    free_previous(evaled_list.st, env, apply_env))

eval_application(ast_list, env, apply_env, st) ==
    eval_evaled(eval_list(ast_list, apply_env, st), env, apply_env)

\* eval, one cycle of `while (ast)` after the macro expansion: a non-list
\* expansion is evaluated in env, the special forms and the application in
\* apply_env
eval_expanded(expanded, env, apply_env) ==
    IF expanded.v = NULL THEN eval_end(Res(NULL, expanded.st), env, apply_env)
    ELSE IF ~expanded.same /\ ~LispDatum_istype(expanded.v, "list")
    THEN eval_end(eval_ast(expanded.v, env, expanded.st), env, apply_env)
    ELSE IF expanded.v.list = <<>>
    THEN eval_end(BADSTX(expanded.st), env, apply_env)
    ELSE CASE expanded.v.list[1] = Sym("def!") ->
                 eval_end(eval_def(expanded.v, apply_env, expanded.st),
                          env, apply_env)
           [] expanded.v.list[1] = Sym("defmacro!") ->
                 eval_end(eval_defmacro(expanded.v, apply_env, expanded.st),
                          env, apply_env)
           [] expanded.v.list[1] = Sym("let*") ->
                 eval_end(eval_letstar(expanded.v, apply_env, expanded.st),
                          env, apply_env)
           [] expanded.v.list[1] = Sym("if") ->
                 eval_next(eval_if(expanded.v, apply_env, expanded.st),
                           env, apply_env)
           [] expanded.v.list[1] = Sym("do") ->
                 eval_end(eval_do(expanded.v, apply_env, expanded.st),
                          env, apply_env)
           [] expanded.v.list[1] = Sym("lambda") ->
                 eval_end(eval_fnstar(expanded.v, apply_env, expanded.st),
                          env, apply_env)
           [] expanded.v.list[1] = Sym("quote") ->
                 eval_end(eval_quote(expanded.v, apply_env, expanded.st),
                          env, apply_env)
           [] expanded.v.list[1] = Sym("quasiquote") ->
                 eval_end(eval_quasiquote(expanded.v, apply_env, expanded.st),
                          env, apply_env)
           [] expanded.v.list[1] = Sym("macroexpand") ->
                 eval_end(eval_macroexpand(expanded.v, apply_env, expanded.st),
                          env, apply_env)
           [] expanded.v.list[1] = Sym("try*") ->
                 eval_end(eval_try_star(expanded.v, apply_env, expanded.st),
                          env, apply_env)
           [] OTHER -> eval_application(expanded.v, env, apply_env, expanded.st)

\* eval, one cycle of `while (ast)`: a datum that is not a list is
\* evaluated in apply_env, a list is macro-expanded in env first
eval_loop(ast, env, apply_env, st) ==
    IF st.crashed \/ ast = NULL THEN eval_end(Res(NULL, st), env, apply_env)
    ELSE IF ~LispDatum_istype(ast, "list")
    THEN eval_end(eval_ast(ast, apply_env, st), env, apply_env)
    ELSE eval_expanded(macroexpand(ast, env, st), env, apply_env)

\* One more activation of eval on the host stack; maxdepth is the deepest
\* nesting since the form was read
eval_enter(st) ==
    [st EXCEPT !.depth = @ + 1,
               !.maxdepth = IF st.depth + 1 > @ THEN st.depth + 1 ELSE @]

eval_leave(r) == Res(r.v, [r.st EXCEPT !.depth = @ - 1])

\* eval: apply_env starts as env
eval(ast, env, st) == eval_leave(eval_loop(ast, env, env, eval_enter(st)))

(***************************************************************************)
(* The interpreter after main's set-up: the root environment (frame 1)     *)
(* binds nil, true, false and the builtins.                                *)
(***************************************************************************)
Proc_builtin(name, argc, variadic) ==
    [builtin |-> TRUE, apply |-> name, argc |-> argc, variadic |-> variadic,
     params |-> <<>>, body |-> <<>>, env |-> 0, name |-> name, macro |-> FALSE]

core_def_procs ==
    << Proc_builtin("list", 0, TRUE), Proc_builtin("prn", 0, TRUE),
       Proc_builtin("cons", 2, FALSE), Proc_builtin("throw", 1, FALSE),
       Proc_builtin("-", 2, TRUE), Proc_builtin(">", 2, FALSE),
       Proc_builtin("atom", 1, FALSE), Proc_builtin("+", 2, TRUE),
       Proc_builtin("deref", 1, FALSE), Proc_builtin("list-ref", 2, FALSE) >>

\* The procedures main binds itself (ENV_PUT_PROC)
main_def_procs ==
    << Proc_builtin("apply", 2, TRUE), Proc_builtin("eval", 1, FALSE),
       Proc_builtin("swap!", 2, TRUE) >>

main ==
    [envs |-> << [binds |-> << <<"nil", Nil>>, <<"true", True>>,
                              <<"false", False>> >>
                              \o [i \in 1..Len(core_def_procs \o main_def_procs) |->
                                     <<(core_def_procs \o main_def_procs)[i].name,
                                       ProcRef(i)>>],
                  enclosing |-> 0, refc |-> 1, freed |-> FALSE] >>,
     procs |-> core_def_procs \o main_def_procs,
     atoms |-> <<>>,
     lastfail |-> "none",
     last_exn |-> NULL,
     crashed |-> FALSE,
     printed |-> <<>>,
     depth |-> 0,
     maxdepth |-> 0,
     maxlive |-> 0]

(***************************************************************************)
(* The forms typed at the prompt.  A form is put together from a fault (a  *)
(* small form that fails, or 5), a context around it and a wrapper around  *)
(* that: (try* <context <fault>> (catch* e (do (prn 99) e))).  (prn 44) is *)
(* evaluated before the fault, (prn 55) stands after it.                   *)
(***************************************************************************)
Before == Lst(<<Sym("prn"), Num(44)>>)
After == Lst(<<Sym("prn"), Num(55)>>)
Handler == Lst(<<Sym("do"), Lst(<<Sym("prn"), Num(99)>>), Sym("e")>>)
Lambda(params, body) == Lst(<<Sym("lambda"), Lst(params)>> \o body)

BadSyntax == {"stx_if", "stx_def", "stx_let", "stx_empty", "stx_do",
              "stx_quote", "stx_lambda", "stx_try"}
Thrown == {"arity", "arity_lambda", "unbound", "notproc", "badtype"}

FaultForm(f) ==
    CASE f = "none"         -> Num(5)
      [] f = "throw"        -> Lst(<<Sym("throw"), Num(7)>>)
      [] f = "arity"        -> Lst(<<Sym("cons"), Num(1)>>)
      [] f = "arity_lambda" -> Lst(<<Lambda(<<Sym("a")>>, <<Sym("a")>>)>>)
      [] f = "unbound"      -> Sym("zz")
      [] f = "notproc"      -> Lst(<<Num(1), Num(2)>>)
      [] f = "badtype"      -> Lst(<<Sym("cons"), Num(1), Num(2)>>)
      [] f = "stx_if"       -> Lst(<<Sym("if")>>)
      [] f = "stx_def"      -> Lst(<<Sym("def!"), Num(1), Num(2)>>)
      [] f = "stx_let"      -> Lst(<<Sym("let*"), Lst(<<>>), Num(1)>>)
      [] f = "stx_empty"    -> Lst(<<>>)
      [] f = "stx_do"       -> Lst(<<Sym("do")>>)
      [] f = "stx_quote"    -> Lst(<<Sym("quote")>>)
      [] f = "stx_lambda"   -> Lst(<<Sym("lambda")>>)
      [] f = "stx_try"      -> Lst(<<Sym("try*"), Num(1)>>)

\* The message throwf formats for a fault
FaultMsg(f) ==
    CASE f \in {"arity", "arity_lambda"} -> "arity"
      [] f = "unbound" -> "symbol binding not found"
      [] f = "notproc" -> "application: expected a procedure"
      [] f = "badtype" -> "bad arg"

InContext(k, x) ==
    CASE k = "id"         -> x
      [] k = "do_nonlast" -> Lst(<<Sym("do"), x, After>>)
      [] k = "do_last"    -> Lst(<<Sym("do"), Before, x>>)
      [] k = "arg"        -> Lst(<<Sym("list"), Before, x, After>>)
      [] k = "if_cond"    -> Lst(<<Sym("if"), x, After, After>>)
      [] k = "if_branch"  -> Lst(<<Sym("if"), Sym("true"), x>>)
      [] k = "let_bind"   -> Lst(<<Sym("let*"), Lst(<<Lst(<<Sym("a"), x>>)>>), After>>)
      [] k = "let_body"   -> Lst(<<Sym("let*"), Lst(<<Lst(<<Sym("a"), Num(1)>>)>>), x>>)
      [] k = "def_val"    -> Lst(<<Sym("def!"), Sym("d"), x>>)
      [] k = "anon_last"  -> Lst(<<Lambda(<<>>, <<Before, x>>)>>)
      [] k = "anon_nonlast" -> Lst(<<Lambda(<<>>, <<x, After>>)>>)
      [] k = "named_last" ->
            Lst(<<Sym("do"),
                  Lst(<<Sym("def!"), Sym("g"), Lambda(<<>>, <<Before, x>>)>>),
                  Lst(<<Sym("g")>>)>>)
      [] k = "named_nonlast" ->
            Lst(<<Sym("do"),
                  Lst(<<Sym("def!"), Sym("g"), Lambda(<<>>, <<x, After>>)>>),
                  Lst(<<Sym("g")>>)>>)

Caught == Lst(<<Sym("try*"), Lst(<<Sym("throw"), Num(1)>>),
                Lst(<<Sym("catch*"), Sym("e"), Num(0)>>)>>)

Wrap(w, x) ==
    CASE w = "bare"   -> x
      [] w = "try"    -> Lst(<<Sym("try*"), x,
                               Lst(<<Sym("catch*"), Sym("e"), Handler>>)>>)
      [] w = "nested" -> Lst(<<Sym("try*"), Lst(<<Sym("do"), Caught, x>>),
                               Lst(<<Sym("catch*"), Sym("e"), Handler>>)>>)

(***************************************************************************)
(* Variadic procedures: (lambda (p1 .. pk & r) (list p1 .. pk r)) applied  *)
(* to the numbers 1..n, as a lambda in head position (how = "anon"), after *)
(* def! (how = "def") or bound by let* (how = "let").                      *)
(***************************************************************************)
MaxMandatory == 1
MaxExtra == 2

PName(i) == Sym(<<"p1", "p2", "p3">>[i])
Nums(n) == [i \in 1..n |-> Num(i)]

VaLambda(k) ==
    Lambda([i \in 1..k |-> PName(i)] \o <<Sym("&"), Sym("r")>>,
           <<Lst(<<Sym("list")>> \o [i \in 1..k |-> PName(i)] \o <<Sym("r")>>)>>)

VaForm(how, k, n) ==
    CASE how = "anon" -> Lst(<<VaLambda(k)>> \o Nums(n))
      [] how = "def"  -> Lst(<<Sym("do"),
                               Lst(<<Sym("def!"), Sym("v"), VaLambda(k)>>),
                               Lst(<<Sym("v")>> \o Nums(n))>>)
      [] how = "let"  -> Lst(<<Sym("let*"),
                               Lst(<<Lst(<<Sym("v"), VaLambda(k)>>)>>),
                               Lst(<<Sym("v")>> \o Nums(n))>>)

(***************************************************************************)
(* Macros used inside a procedure body: id is (lambda (x) x), so (id y)    *)
(* expands to the symbol y; seven is (lambda (x) 7).                       *)
(***************************************************************************)
DefId == Lst(<<Sym("defmacro!"), Sym("id"), Lambda(<<Sym("x")>>, <<Sym("x")>>)>>)
DefSeven == Lst(<<Sym("defmacro!"), Sym("seven"), Lambda(<<Sym("x")>>, <<Num(7)>>)>>)
UseId == Lst(<<Sym("id"), Sym("y")>>)

MacroForm(u) ==
    CASE u = "let"    -> Lst(<<Sym("do"), DefId,
                               Lst(<<Sym("let*"),
                                     Lst(<<Lst(<<Sym("y"), Num(5)>>)>>), UseId>>)>>)
      [] u = "anon"   -> Lst(<<Sym("do"), DefId,
                               Lst(<<Lambda(<<Sym("y")>>, <<UseId>>), Num(5)>>)>>)
      [] u = "named"  -> Lst(<<Sym("do"), DefId,
                               Lst(<<Sym("def!"), Sym("f"),
                                     Lambda(<<Sym("y")>>, <<UseId>>)>>),
                               Lst(<<Sym("f"), Num(5)>>)>>)
      [] u = "shadow" -> Lst(<<Sym("do"), DefSeven,
                               Lst(<<Sym("def!"), Sym("f"),
                                     Lambda(<<Sym("seven")>>,
                                            <<Lst(<<Sym("seven"), Num(1)>>)>>)>>),
                               Lst(<<Sym("f"), Sym("list")>>)>>)

\* What the form stands for: the parameter's value
MacroValue(u) == IF u = "shadow" THEN Lst(<<Num(1)>>) ELSE Num(5)

(***************************************************************************)
(* Scoping: f2 is (lambda () x), defined at top level; a caller binds x to *)
(* 10 in its own frame and calls (f2), as the last form of a named         *)
(* procedure (c = "tail"), as the chosen branch of an if that is the last  *)
(* form (c = "if"), inside a do (c = "do"), as an argument (c = "arg"),    *)
(* from an anonymous procedure (c = "anon") or from the body of let*       *)
(* (c = "let").  With g a global x bound to 7 exists.                      *)
(***************************************************************************)
CallF2 == Lst(<<Sym("f2")>>)

ScopeCaller(c) ==
    CASE c = "tail" -> Lambda(<<Sym("x")>>, <<CallF2>>)
      [] c = "if"   -> Lambda(<<Sym("x")>>, <<Lst(<<Sym("if"), Sym("true"), CallF2>>)>>)
      [] c = "do"   -> Lambda(<<Sym("x")>>, <<Lst(<<Sym("do"), Before, CallF2>>)>>)
      [] c = "arg"  -> Lambda(<<Sym("x")>>,
                              <<Lst(<<Sym("cons"), CallF2, Lst(<<Sym("list")>>)>>)>>)

ScopeCall(c) ==
    CASE c \in {"tail", "if", "do", "arg"} ->
            Lst(<<Sym("do"), Lst(<<Sym("def!"), Sym("f1"), ScopeCaller(c)>>),
                  Lst(<<Sym("f1"), Num(10)>>)>>)
      [] c = "anon" -> Lst(<<Lambda(<<Sym("x")>>, <<CallF2>>), Num(10)>>)
      [] c = "let"  -> Lst(<<Sym("let*"), Lst(<<Lst(<<Sym("x"), Num(10)>>)>>),
                             CallF2>>)

ScopeForm(c, g) ==
    Lst(<<Sym("do")>>
        \o (IF g THEN <<Lst(<<Sym("def!"), Sym("x"), Num(7)>>)>> ELSE <<>>)
        \o <<Lst(<<Sym("def!"), Sym("f2"), Lambda(<<>>, <<Sym("x")>>)>>),
             ScopeCall(c)>>)

\* What f2 yields when x is resolved where f2 was created
ScopeValue(c, v) == IF c = "arg" THEN Lst(<<v>>) ELSE v

(***************************************************************************)
(* def! in a local frame: (def! q 1) evaluated as or in the body of an     *)
(* anonymous procedure, of a named procedure h, of let* or of a catch*     *)
(* handler (LocalDef), placed in an outer frame (the root, a let* that     *)
(* binds q to 5, a procedure whose parameter q is 5) that reads q          *)
(* afterwards.  With pre the root binds q to 3 beforehand.                 *)
(***************************************************************************)
DefQ == Lst(<<Sym("def!"), Sym("q"), Num(1)>>)

CallH(body) ==
    Lst(<<Sym("do"), Lst(<<Sym("def!"), Sym("h"), Lambda(<<>>, body)>>),
          Lst(<<Sym("h")>>)>>)

LocalDef(c) ==
    CASE c = "anon"          -> Lst(<<Lambda(<<>>, <<DefQ>>)>>)
      [] c = "anon_nonlast"  -> Lst(<<Lambda(<<>>, <<DefQ, Num(2)>>)>>)
      [] c = "named"         -> CallH(<<DefQ>>)
      [] c = "named_nonlast" -> CallH(<<DefQ, Num(2)>>)
      [] c = "named_if"      -> CallH(<<Lst(<<Sym("if"), Sym("true"), DefQ>>)>>)
      [] c = "let"           -> Lst(<<Sym("let*"),
                                      Lst(<<Lst(<<Sym("z"), Num(0)>>)>>), DefQ>>)
      [] c = "catch"         -> Lst(<<Sym("try*"), Lst(<<Sym("throw"), Num(0)>>),
                                      Lst(<<Sym("catch*"), Sym("e"), DefQ>>)>>)

LocalOuter(o, x) ==
    CASE o = "root"  -> Lst(<<Sym("do"), x, Sym("q")>>)
      [] o = "let"   -> Lst(<<Sym("let*"), Lst(<<Lst(<<Sym("q"), Num(5)>>)>>),
                              Lst(<<Sym("do"), x, Sym("q")>>)>>)
      [] o = "anon"  -> Lst(<<Lambda(<<Sym("q")>>, <<x, Sym("q")>>), Num(5)>>)
      [] o = "named" -> Lst(<<Sym("do"),
                              Lst(<<Sym("def!"), Sym("o"),
                                    Lambda(<<Sym("q")>>, <<x, Sym("q")>>)>>),
                              Lst(<<Sym("o"), Num(5)>>)>>)

LocalForm(c, o, pre) ==
    IF pre THEN Lst(<<Sym("do"), Lst(<<Sym("def!"), Sym("q"), Num(3)>>),
                      LocalOuter(o, LocalDef(c))>>)
    ELSE LocalOuter(o, LocalDef(c))

(***************************************************************************)
(* Loops: loop is (lambda (x) (if (> x 0) <again> 0)), where <again> holds *)
(* the self-call (loop (- x 1)): as the branch itself (t = "if"), as the   *)
(* final expression of do (t = "do"), as the body of let* (t = "let"), as  *)
(* the body of try* (t = "try") or as the catch* handler (t = "catch").    *)
(* (loop n) makes n self-calls.                                            *)
(***************************************************************************)
MaxIter == 3

Again == Lst(<<Sym("loop"), Lst(<<Sym("-"), Sym("x"), Num(1)>>)>>)

LoopBranch(t) ==
    CASE t = "if"    -> Again
      [] t = "do"    -> Lst(<<Sym("do"), Num(1), Again>>)
      [] t = "let"   -> Lst(<<Sym("let*"), Lst(<<Lst(<<Sym("y"), Num(1)>>)>>), Again>>)
      [] t = "try"   -> Lst(<<Sym("try*"), Again,
                              Lst(<<Sym("catch*"), Sym("e"), Num(0)>>)>>)
      [] t = "catch" -> Lst(<<Sym("try*"), Lst(<<Sym("throw"), Num(1)>>),
                              Lst(<<Sym("catch*"), Sym("e"), Again>>)>>)

LoopForm(t, n) ==
    Lst(<<Sym("do"),
          Lst(<<Sym("def!"), Sym("loop"),
                Lambda(<<Sym("x")>>,
                       <<Lst(<<Sym("if"), Lst(<<Sym(">"), Sym("x"), Num(0)>>),
                               LoopBranch(t), Num(0)>>)>>)>>),
          Lst(<<Sym("loop"), Num(n)>>)>>)

(***************************************************************************)
(* Arity: (lambda (p1 .. pk) (prn 55) 0), or with & r after pk, applied to *)
(* the numbers 1..n: in head position (how = "anon"), after def! ("named"),*)
(* as a macro ("macro"), through apply with all arguments in the list      *)
(* ("apply"), with the first of them before the list ("apply_interm"), a   *)
(* named procedure through apply ("apply_named"), and through swap! on an  *)
(* atom holding 1 ("swap").  A builtin b is applied to 1..n directly       *)
(* (how = "builtin") or through apply ("apply_builtin").                   *)
(***************************************************************************)
ArityLambda(k, va) ==
    Lambda([i \in 1..k |-> PName(i)]
               \o (IF va THEN <<Sym("&"), Sym("r")>> ELSE <<>>),
           <<After, Num(0)>>)

ArityListOf(args) == Lst(<<Sym("list")>> \o args)

ArityForm(how, f, n) ==
    CASE how = "anon"   -> Lst(<<f>> \o Nums(n))
      [] how = "named"  -> Lst(<<Sym("do"), Lst(<<Sym("def!"), Sym("f"), f>>),
                                 Lst(<<Sym("f")>> \o Nums(n))>>)
      [] how = "macro"  -> Lst(<<Sym("do"), Lst(<<Sym("defmacro!"), Sym("m"), f>>),
                                 Lst(<<Sym("m")>> \o Nums(n))>>)
      [] how = "apply"  -> Lst(<<Sym("apply"), f, ArityListOf(Nums(n))>>)
      [] how = "apply_interm" ->
            Lst(<<Sym("apply"), f, Num(1), ArityListOf(Tail(Nums(n)))>>)
      [] how = "apply_named" ->
            Lst(<<Sym("do"), Lst(<<Sym("def!"), Sym("f"), f>>),
                  Lst(<<Sym("apply"), Sym("f"), ArityListOf(Nums(n))>>)>>)
      [] how = "swap"   ->
            Lst(<<Sym("swap!"), Lst(<<Sym("atom"), Num(1)>>), f>> \o Tail(Nums(n)))
      [] how = "builtin" -> Lst(<<f>> \o Nums(n))
      [] how = "apply_builtin" -> Lst(<<Sym("apply"), f, ArityListOf(Nums(n))>>)

(***************************************************************************)
(* The builtin eval called from a local frame that binds w to 5: a let*,   *)
(* an anonymous procedure, a named procedure g, a let* inside an anonymous *)
(* procedure (EvalCaller).  The datum evaluated reads w or is (def! w 1).  *)
(* With pre the root binds w to 3 beforehand.                              *)
(***************************************************************************)
EvalDatum(d) ==
    CASE d = "read" -> Sym("w")
      [] d = "def"  -> Lst(<<Sym("def!"), Sym("w"), Num(1)>>)

EvalCall(d) == Lst(<<Sym("eval"), Lst(<<Sym("quote"), EvalDatum(d)>>)>>)

EvalCaller(c, x) ==
    CASE c = "let"    -> Lst(<<Sym("let*"), Lst(<<Lst(<<Sym("w"), Num(5)>>)>>), x>>)
      [] c = "anon"   -> Lst(<<Lambda(<<Sym("w")>>, <<x>>), Num(5)>>)
      [] c = "named"  -> Lst(<<Sym("do"),
                               Lst(<<Sym("def!"), Sym("g"),
                                     Lambda(<<Sym("w")>>, <<x>>)>>),
                               Lst(<<Sym("g"), Num(5)>>)>>)
      [] c = "nested" -> Lst(<<Lambda(<<Sym("v")>>,
                                      <<Lst(<<Sym("let*"),
                                              Lst(<<Lst(<<Sym("w"), Num(5)>>)>>),
                                              x>>)>>),
                               Num(0)>>)

EvalForm(c, d, pre) ==
    Lst(<<Sym("do")>>
        \o (IF pre THEN <<Lst(<<Sym("def!"), Sym("w"), Num(3)>>)>> ELSE <<>>)
        \o <<EvalCaller(c, EvalCall(d))>>)

(***************************************************************************)
(* The atom test of lisp/atom-test.lisp: two closures made in one let*     *)
(* that binds a to (atom 1), atom-inc, which is (swap! a + 1), and         *)
(* atom-deref, which is (deref a), are taken out of a list and bound in    *)
(* the root; then they are called, each call a form of its own.            *)
(***************************************************************************)
MaxAtomCalls == 4

AtomDefs ==
    Lst(<<Sym("do"),
          Lst(<<Sym("def!"), Sym("lst"),
                Lst(<<Sym("let*"),
                      Lst(<<Lst(<<Sym("a"), Lst(<<Sym("atom"), Num(1)>>)>>)>>),
                      Lst(<<Sym("list"),
                            Lambda(<<>>, <<Lst(<<Sym("swap!"), Sym("a"),
                                                 Sym("+"), Num(1)>>)>>),
                            Lambda(<<>>, <<Lst(<<Sym("deref"), Sym("a")>>)>>)>>)>>)>>),
          Lst(<<Sym("def!"), Sym("atom-inc"),
                Lst(<<Sym("list-ref"), Sym("lst"), Num(0)>>)>>),
          Lst(<<Sym("def!"), Sym("atom-deref"),
                Lst(<<Sym("list-ref"), Sym("lst"), Num(1)>>)>>)>>)

(***************************************************************************)
(* Signalling forms: each form makes a known sequence of throw, throwf and *)
(* error calls.  SigCalls(s) is that sequence, read off the evaluator:     *)
(* the builtin throw calls throw, an unbound symbol and a builtin's type   *)
(* check call throwf, a malformed special form calls error, and a catch*   *)
(* handler runs after the throw of the try* expression.                    *)
(***************************************************************************)
MaxSignals == 4

Signals == {"quiet", "def", "throw", "throwf", "badtype", "error", "caught",
            "throw_error", "throwf_throw", "caught_quiet"}

SigForm(s) ==
    CASE s = "quiet"    -> Num(5)
      [] s = "def"      -> Lst(<<Sym("def!"), Sym("ok"), Num(1)>>)
      [] s = "throw"    -> Lst(<<Sym("throw"), Num(7)>>)
      [] s = "throwf"   -> Sym("zz")
      [] s = "badtype"  -> Lst(<<Sym("cons"), Num(1), Num(2)>>)
      [] s = "error"    -> Lst(<<Sym("if")>>)
      [] s = "caught"   -> Caught
      [] s = "throw_error" ->
            Lst(<<Sym("try*"), Lst(<<Sym("throw"), Num(1)>>),
                  Lst(<<Sym("catch*"), Sym("e"), Lst(<<Sym("if")>>)>>)>>)
      [] s = "throwf_throw" ->
            Lst(<<Sym("try*"), Sym("zz"),
                  Lst(<<Sym("catch*"), Sym("e"),
                        Lst(<<Sym("throw"), Num(2)>>)>>)>>)
      [] s = "caught_quiet" ->
            Lst(<<Sym("do"), Caught, Num(3)>>)

SigCalls(s) ==
    CASE s \in {"quiet", "def"}         -> <<>>
      [] s = "throw"                    -> <<"throw">>
      [] s \in {"throwf", "badtype"}    -> <<"throwf">>
      [] s = "error"                    -> <<"error">>
      [] s \in {"caught", "caught_quiet"} -> <<"throw">>
      [] s = "throw_error"              -> <<"throw", "error">>
      [] s = "throwf_throw"             -> <<"throwf", "throw">>

\* The most recent signalling call after the calls of a form
SigRecent(recent, calls_) ==
    IF calls_ = <<>> THEN recent ELSE calls_[Len(calls_)]

(***************************************************************************)
(* Applications whose argument expressions have an effect: the i-th        *)
(* argument expression is (prn i).  The operator is a lambda of k          *)
(* parameters in head position, the same lambda named f, or the builtin    *)
(* cons.                                                                   *)
(***************************************************************************)
Prns(n) == [i \in 1..n |-> Lst(<<Sym("prn"), Num(i)>>)]

EffectForm(how, k, n) ==
    CASE how = "anon"    -> Lst(<<ArityLambda(k, FALSE)>> \o Prns(n))
      [] how = "named"   ->
            Lst(<<Sym("do"),
                  Lst(<<Sym("def!"), Sym("f"), ArityLambda(k, FALSE)>>),
                  Lst(<<Sym("f")>> \o Prns(n))>>)
      [] how = "builtin" -> Lst(<<Sym("cons")>> \o Prns(n))

\* The number of arguments the operator of EffectForm requires
EffectArgc(how, k) == IF how = "builtin" THEN 2 ELSE k

(***************************************************************************)
(* swap! with a procedure that fails: (do (def! a (atom 1)) (swap! a f))   *)
(* where f takes two parameters (arity violation), throws, reads an        *)
(* unbound symbol or holds a malformed special form; "ok" is the           *)
(* procedure that returns 2.                                               *)
(***************************************************************************)
SwapFails == {"arity", "throw", "unbound", "stx"}

SwapProc(f) ==
    CASE f = "arity"   -> Lambda(<<Sym("x"), Sym("y")>>, <<Sym("x")>>)
      [] f = "throw"   -> Lambda(<<Sym("x")>>, <<Lst(<<Sym("throw"), Num(7)>>)>>)
      [] f = "unbound" -> Lambda(<<Sym("x")>>, <<Sym("zz")>>)
      [] f = "stx"     -> Lambda(<<Sym("x")>>, <<Lst(<<Sym("if")>>)>>)
      [] f = "ok"      -> Lambda(<<Sym("x")>>, <<Num(2)>>)

SwapForm(f) ==
    Lst(<<Sym("do"),
          Lst(<<Sym("def!"), Sym("a"), Lst(<<Sym("atom"), Num(1)>>)>>),
          Lst(<<Sym("swap!"), Sym("a"), SwapProc(f)>>)>>)

(***************************************************************************)
(* The session: up to MaxSession forms, the last of them a form of one of  *)
(* the three families, the ones before it taken from Setups.               *)
(***************************************************************************)
MaxSession == 3

SetupForm(s) ==
    CASE s = "throw"  -> Lst(<<Sym("throw"), Num(1)>>)
      [] s = "caught" -> Caught
      [] s = "badstx" -> Lst(<<Sym("if")>>)
      [] s = "def"    -> Lst(<<Sym("def!"), Sym("ok"), Num(1)>>)

\* rep: read, eval in the root environment, print
rep_eval(form) ==
    /\ ~interp.crashed
    /\ LET e == eval(form, 1, [interp EXCEPT !.printed = <<>>, !.maxdepth = 0,
                                           !.maxlive = 0])
       IN  /\ interp' = e.st
           /\ retval' = e.v
    /\ nreps' = nreps + 1
    /\ UNCHANGED <<eqVars, listVars, exnVars, envVars, symVars, libVars>>

\* A form read at the start of the session or after its set-up forms
rep(form) ==
    /\ nreps < MaxSession
    /\ last.fam \in {"none", "setup"}
    /\ rep_eval(form)

RepSetup ==
    \E s \in {"throw", "caught", "badstx", "def"} :
        /\ rep(SetupForm(s))
        /\ last' = [fam |-> "setup", s |-> s]

RepFault ==
    \E w \in {"bare", "try", "nested"},
       k \in {"id", "do_nonlast", "do_last", "arg", "if_cond", "if_branch",
              "let_bind", "let_body", "def_val", "anon_last", "anon_nonlast",
              "named_last", "named_nonlast"},
       f \in {"none", "throw"} \cup Thrown \cup BadSyntax :
        /\ rep(Wrap(w, InContext(k, FaultForm(f))))
        /\ last' = [fam |-> "fault", w |-> w, k |-> k, f |-> f]

RepVariadic ==
    \E how \in {"anon", "def", "let"}, k \in 0..MaxMandatory, x \in 0..MaxExtra :
        /\ rep(VaForm(how, k, k + x))
        /\ last' = [fam |-> "va", how |-> how, k |-> k, n |-> k + x]

RepMacro ==
    \E u \in {"let", "anon", "named", "shadow"} :
        /\ rep(MacroForm(u))
        /\ last' = [fam |-> "macro", u |-> u]

RepScope ==
    \E c \in {"tail", "if", "do", "arg", "anon", "let"}, g \in BOOLEAN :
        /\ rep(ScopeForm(c, g))
        /\ last' = [fam |-> "scope", c |-> c, g |-> g]

RepLocalDef ==
    \E c \in {"anon", "anon_nonlast", "named", "named_nonlast", "named_if",
              "let", "catch"},
       o \in {"root", "let", "anon", "named"}, pre \in BOOLEAN :
        /\ rep(LocalForm(c, o, pre))
        /\ last' = [fam |-> "local", c |-> c, o |-> o, pre |-> pre]

RepLoop ==
    \E t \in {"if", "do", "let", "try", "catch"}, n \in 0..MaxIter :
        /\ rep(LoopForm(t, n))
        /\ last' = [fam |-> "loop", t |-> t, n |-> n]

RepArity ==
    \E how \in {"anon", "named", "macro", "apply", "apply_interm",
                "apply_named", "swap"},
       k \in 0..MaxMandatory, va \in BOOLEAN, n \in 0..(MaxMandatory + MaxExtra) :
        /\ how \in {"apply_interm", "swap"} => n >= 1
        /\ rep(ArityForm(how, ArityLambda(k, va), n))
        /\ last' = [fam |-> "arity", how |-> how, argc |-> k, va |-> va, n |-> n]

RepArityBuiltin ==
    \E how \in {"builtin", "apply_builtin"},
       b \in 1..Len(core_def_procs), n \in 0..(MaxMandatory + MaxExtra) :
        /\ rep(ArityForm(how, Sym(core_def_procs[b].name), n))
        /\ last' = [fam |-> "arity", how |-> how, argc |-> core_def_procs[b].argc,
                    va |-> core_def_procs[b].variadic, n |-> n]

RepEval ==
    \E c \in {"let", "anon", "named", "nested"}, d \in {"read", "def"},
       pre \in BOOLEAN :
        /\ rep(EvalForm(c, d, pre))
        /\ last' = [fam |-> "eval", c |-> c, d |-> d, pre |-> pre]

\* The definitions of the atom test
RepAtomDefs ==
    /\ rep(AtomDefs)
    /\ last' = [fam |-> "atom", op |-> "defs", k |-> 0]

\* (atom-inc), the k-th call
RepAtomInc ==
    /\ last.fam = "atom"
    /\ nreps < MaxSession + MaxAtomCalls
    /\ rep_eval(Lst(<<Sym("atom-inc")>>))
    /\ last' = [fam |-> "atom", op |-> "inc", k |-> last.k + 1]

\* (atom-deref) after k calls of atom-inc
RepAtomDeref ==
    /\ last.fam = "atom"
    /\ nreps < MaxSession + MaxAtomCalls
    /\ rep_eval(Lst(<<Sym("atom-deref")>>))
    /\ last' = [fam |-> "atom", op |-> "deref", k |-> last.k]

\* A form of the signalling corpus, after any number of others
RepSignal ==
    \E s \in Signals :
        /\ last.fam \in {"none", "sig"}
        /\ nreps < MaxSignals
        /\ rep_eval(SigForm(s))
        /\ last' = [fam |-> "sig", s |-> s,
                    prev |-> IF last.fam = "sig" THEN last.recent ELSE "none",
                    recent |-> SigRecent(IF last.fam = "sig" THEN last.recent
                                         ELSE "none", SigCalls(s))]

\* An application with n effectful argument expressions
RepEffect ==
    \E how \in {"anon", "named", "builtin"}, k \in 0..MaxMandatory,
       n \in 0..(MaxMandatory + MaxExtra) :
        /\ rep(EffectForm(how, k, n))
        /\ last' = [fam |-> "effect", how |-> how, argc |-> EffectArgc(how, k),
                    n |-> n]

\* swap! of a fresh atom holding 1 with the procedure f
RepSwapFail ==
    \E f \in SwapFails \cup {"ok"} :
        /\ rep(SwapForm(f))
        /\ last' = [fam |-> "swapfail", f |-> f]

Init ==
    /\ interp = main
    /\ last = [fam |-> "none"]
    /\ retval = NULL
    /\ nreps = 0
    /\ eqargs = <<1, 1, 1>>
    /\ cmps = {}
    /\ ListIdle
    /\ ExnIdle
    /\ EnvIdle
    /\ SymIdle
    /\ LibIdle

Next ==
    \/ RepSetup
    \/ RepFault
    \/ RepVariadic
    \/ RepMacro
    \/ RepScope
    \/ RepLocalDef
    \/ RepLoop
    \/ RepArity
    \/ RepArityBuiltin
    \/ RepEval
    \/ RepAtomDefs
    \/ RepAtomInc
    \/ RepAtomDeref
    \/ RepSignal
    \/ RepEffect
    \/ RepSwapFail

Spec == Init /\ [][Next]_vars

(***************************************************************************)
(* Properties of the evaluator (Spec).                                     *)
(***************************************************************************)
\* prn was called with the single number n while the last form was evaluated
Printed(n) == \E i \in 1..Len(interp.printed) : interp.printed[i] = <<Num(n)>>

InTry == last.fam = "fault" /\ last.w \in {"try", "nested"}

\* C1: a variadic procedure with k required parameters applied to the
\* numbers 1..n, n >= k, anonymous or named, sees parameter i bound to
\* argument i and the rest parameter bound to the list of the arguments
\* k+1..n (empty when n = k): its body (list p1 .. pk r) yields
\* (1 .. k (k+1 .. n)).
C1_VariadicBinding ==
    last.fam = "va" =>
        /\ ~interp.crashed
        /\ retval = Lst(Nums(last.k)
                        \o <<Lst(SubSeq(Nums(last.n),
                                        last.k + 1, last.n))>>)

\* C2: a macro form in a body is expanded and its non-list expansion is
\* evaluated in the environment the body is evaluated in, also when the
\* body belongs to a named procedure: (id y) yields the value of the
\* parameter y, and a parameter that shadows a macro is not expanded.
C2_MacroEnv ==
    last.fam = "macro" =>
        /\ ~interp.crashed
        /\ retval = MacroValue(last.u)

\* C3: (throw 7) raised anywhere inside the body of try* reaches the
\* handler: the handler runs with the Exception of 7, and the form that
\* follows the raising point, (prn 55), is not evaluated.
C3_ExceptionDelivered ==
    (InTry /\ last.f = "throw") =>
        /\ ~interp.crashed
        /\ Printed(99)
        /\ ~Printed(55)
        /\ retval = Exn(Num(7))

C5_BadSyntaxNotCaught ==
    (InTry /\ last.f \in BadSyntax) => (~Printed(99) /\ retval = NULL)

C5_Witness ==
    /\ InTry
    /\ last.f \in BadSyntax
    /\ last.w = "nested"
    /\ last.k = "do_last"
    /\ nreps = MaxSession
    /\ ~interp.crashed
    /\ interp.last_exn # NULL
    /\ interp.lastfail = "error"
    /\ Printed(44)
    /\ retval = NULL

IterDepth(t) == eval(LoopForm(t, 1), 1, main).st.maxdepth

\* C14: when a named procedure calls itself as the chosen branch of the if
\* that is its last body form, the nesting of eval activations is no deeper
\* for n self-calls than for one, and the frame of each finished iteration
\* is freed before the frame of the next one is made: there are never two
\* frames allocated at once, and none is left when the call has returned.
C14_IfTailCall ==
    (last.fam = "loop" /\ last.t = "if") =>
        /\ ~interp.crashed
        /\ retval = Num(0)
        /\ interp.maxdepth <= IterDepth("if")
        /\ interp.maxlive <= 1
        /\ LiveFrames(interp) = 0

C14_Witness ==
    /\ last.fam = "loop"
    /\ last.t = "if"
    /\ last.n = MaxIter
    /\ retval = Num(0)
    /\ interp.maxlive = 1
    /\ \E e \in 2..Len(interp.envs) :
           /\ interp.envs[e].binds = << <<"x", Num(0)>> >>
           /\ interp.envs[e].freed

\* C15: a self-call of a named procedure placed as the final expression of
\* do, as the body of let*, or as the body or the handler of try*/catch*
\* is in tail position: the nesting of eval activations is no deeper for n
\* self-calls than for one.
C15_TailPositions ==
    (last.fam = "loop" /\ last.t \in {"do", "let", "try", "catch"}) =>
        interp.maxdepth <= IterDepth(last.t)

\* The application of the last form was refused by the arity check
ArityRejected ==
    /\ retval = NULL
    /\ interp.lastfail = "exception"
    /\ interp.last_exn = Str("arity")

\* Some frame binds a parameter of the procedure of the last form
ParamBound ==
    \E e \in 1..Len(interp.envs) :
        \E i \in 1..Len(interp.envs[e].binds) :
            interp.envs[e].binds[i][1] \in {"p1", "p2", "p3", "p4", "r"}

\* C16: the application of a procedure with argc required parameters to n
\* arguments is refused exactly when n < argc, or n > argc and the
\* procedure is not variadic; when it is refused the form has no value, no
\* parameter is bound in any frame, the body has not run (55 is not
\* printed), a builtin has had no effect (no atom made, nothing printed) and
\* the atom of swap! keeps its value.  User procedures, named and not,
\* builtins, macros, and procedures applied by apply and swap!.
C16_ArityChecked ==
    last.fam = "arity" =>
        /\ ArityRejected <=> (\/ last.n < last.argc
                              \/ (last.n > last.argc /\ ~last.va))
        /\ ArityRejected =>
              /\ ~interp.crashed
              /\ ~ParamBound
              /\ interp.printed = <<>>
              /\ interp.atoms = IF last.how = "swap" THEN <<Num(1)>> ELSE <<>>

\* Both kinds of refusal happen, on each way of applying
C16_Witness ==
    /\ last.fam = "arity"
    /\ last.how = "swap"
    /\ ~last.va
    /\ last.n > last.argc
    /\ ArityRejected
    /\ interp.atoms = <<Num(1)>>

\* C22: the builtin eval evaluates its argument in the root environment
\* whatever frame it is called from: a symbol the caller's local frame binds
\* is resolved in the root (unbound when the root does not bind it), and a
\* def! performed by the datum binds in the root frame, the caller's local
\* binding staying as it is.
C22_EvalInRoot ==
    last.fam = "eval" =>
        /\ ~interp.crashed
        /\ last.d = "read" /\ last.pre => retval = Num(3)
        /\ last.d = "read" /\ ~last.pre => retval = NULL /\ didthrow(interp)
        /\ last.d = "def" =>
              /\ retval = Num(1)
              /\ MalEnv_get(interp, 1, "w") = Num(1)
              /\ \A i \in 2..Len(interp.envs) :
                    HashTbl_has(interp.envs[i].binds, "w") =>
                        HashTbl_get(interp.envs[i].binds, "w") = Num(5)

\* eval called in a let* inside an anonymous procedure has defined w in the
\* root, which bound it to 3, while the let* frame still binds it to 5
C22_Witness ==
    /\ last = [fam |-> "eval", c |-> "nested", d |-> "def", pre |-> TRUE]
    /\ retval = Num(1)
    /\ MalEnv_get(interp, 1, "w") = Num(1)
    /\ \E i \in 2..Len(interp.envs) :
          /\ HashTbl_has(interp.envs[i].binds, "w")
          /\ HashTbl_get(interp.envs[i].binds, "w") = Num(5)

\* C24: the updates swap! makes to an atom persist and accumulate across
\* separate calls made through different closures that captured the atom:
\* for an atom made holding 1, the k-th call of (swap! a + 1) returns 1 + k,
\* the value it stored, and deref of the atom from the other closure
\* returns 1 + k after k calls.
C24_SwapAccumulates ==
    last.fam = "atom" /\ last.op # "defs" =>
        /\ ~interp.crashed
        /\ retval = Num(1 + last.k)
        /\ interp.atoms = <<Num(1 + last.k)>>

\* deref after three calls of atom-inc, with a deref between them
C24_Witness ==
    /\ last = [fam |-> "atom", op |-> "deref", k |-> 3]
    /\ retval = Num(4)
    /\ nreps >= 6

\* C25: after any sequence of throw/throwf and error calls, didthrow() is
\* true exactly when the most recent of them was throw or throwf; a form
\* that signals nothing leaves it as it was
C25_DidthrowIsLastSignal ==
    last.fam = "sig" =>
        /\ didthrow(interp) <=> last.recent \in {"throw", "throwf"}
        /\ SigCalls(last.s) = <<>> => last.recent = last.prev

\* a throw right after an error, in a session of three signalling forms
C25_Witness ==
    /\ last.fam = "sig"
    /\ last.s \in {"throw", "throwf_throw"}
    /\ last.prev = "error"
    /\ didthrow(interp)
    /\ nreps >= 3

\* C26: the arity of the procedure is checked before the arguments are
\* evaluated: when the number of argument expressions violates the arity,
\* no argument expression is evaluated and none of its effects occurs
C26_ArityBeforeArguments ==
    last.fam = "effect" /\ last.n # last.argc =>
        /\ retval = NULL
        /\ didthrow(interp)
        /\ interp.printed = <<>>

\* What the evaluator does: all the argument expressions are evaluated, in
\* order, and then the arity exception is raised
C26_ArgumentsThenArity ==
    last.fam = "effect" /\ last.n # last.argc =>
        /\ retval = NULL
        /\ didthrow(interp)
        /\ interp.last_exn = Str("arity")
        /\ interp.printed = [i \in 1..last.n |-> <<Num(i)>>]

\* C29: if the procedure applied by swap! fails (arity violation, or an
\* exception or error raised in its body), swap! yields no value and the
\* atom still holds the value it held before the call
C29_SwapFailureKeepsAtom ==
    last.fam = "swapfail" /\ last.f \in SwapFails =>
        /\ ~interp.crashed
        /\ retval = NULL
        /\ interp.atoms = <<Num(1)>>

\* What the evaluator does: the atom is kept on an arity violation only;
\* after a failure in the body Atom_set is handed NULL
C29_SwapFailureOutcome ==
    last.fam = "swapfail" =>
        CASE last.f = "arity" ->
                ~interp.crashed /\ retval = NULL /\ interp.atoms = <<Num(1)>>
          [] last.f = "ok" ->
                ~interp.crashed /\ retval = Num(2) /\ interp.atoms = <<Num(2)>>
          [] OTHER ->
                interp.crashed /\ interp.atoms = <<NULL>>

(***************************************************************************)
(* SpecExn: the reference counts of Numbers, Exceptions and Lists.  A heap *)
(* h is [dtm, fatal, uaf]: dtm[a] is the datum at address a, [kind, dtm,   *)
(* refc, freed] (dtm: the payload of an Exception, the elements of a List, *)
(* 0 for a Number), fatal says that FATAL ended the process, uaf that the  *)
(* handler of a try* was given freed memory.  Freed memory is not handed   *)
(* out again.                                                              *)
(* The forms read are (def! s 7), (def! e (exn x)), (throw x) and          *)
(* (try* (throw x) (catch* c 0)) over the names s, e, f, and               *)
(* (try* (throw V) (catch* c 0)) for V the number 7 inside up to           *)
(* MaxCtors applications of exn and list; each action is                   *)
(* the sequence of own, release and free calls that read, eval and rep     *)
(* make on the datums involved.  The session stops at the first datum that *)
(* is freed while still referenced: what follows is a use after free.      *)
(***************************************************************************)
MaxDtms == 9

LispDatum_own(h, a) == [h EXCEPT !.dtm[a].refc = @ + 1]

\* _LispDatum_rls: FATAL when the count is not positive
LispDatum_rls(h, a) ==
    IF h.dtm[a].refc <= 0 THEN [h EXCEPT !.fatal = TRUE]
    ELSE [h EXCEPT !.dtm[a].refc = @ - 1]

\* LispDatum_free: refused while the count is positive; Exception_free
\* releases and frees the payload, then frees the Exception
RECURSIVE LispDatum_free(_, _)

\* List_free, the loop over the nodes: each value is released and freed
RECURSIVE List_free_loop(_, _)
List_free_loop(h, elems) ==
    IF elems = <<>> THEN h
    ELSE List_free_loop(LispDatum_free(LispDatum_rls(h, Head(elems)), Head(elems)),
                        Tail(elems))

LispDatum_free(h, a) ==
    IF h.fatal \/ h.dtm[a].refc > 0 THEN h
    ELSE IF h.dtm[a].kind = "num" THEN [h EXCEPT !.dtm[a].freed = TRUE]
    ELSE IF h.dtm[a].kind = "list"
    THEN [List_free_loop(h, h.dtm[a].dtm) EXCEPT !.dtm[a].freed = TRUE]
    ELSE [LispDatum_free(LispDatum_rls(h, h.dtm[a].dtm), h.dtm[a].dtm)
              EXCEPT !.dtm[a].freed = TRUE]

LispDatum_rls_free(h, a) == LispDatum_free(LispDatum_rls(h, a), a)

\* _LispDatum_new under malloc: a new datum with count 0
Datum_new(h, kind, dtm) ==
    Ret([h EXCEPT !.dtm = Append(@, [kind |-> kind, dtm |-> dtm,
                                     refc |-> 0, freed |-> FALSE])],
        Len(h.dtm) + 1)

\* Exception_copy: a new Exception with the same payload pointer
Exception_copy(h, a) == Datum_new(h, "exn", h.dtm[a].dtm)

RECURSIVE LispDatum_copy(_, _)

\* List_copy, the loop over the nodes: List_add of a copy of each value
RECURSIVE List_copy_loop(_, _, _)
List_copy_loop(h, elems, out) ==
    IF elems = <<>> THEN Ret(h, out)
    ELSE LET cpy == LispDatum_copy(h, Head(elems))
         IN  List_copy_loop(LispDatum_own(cpy.h, cpy.r), Tail(elems),
                            Append(out, cpy.r))

\* List_copy of a list that is not empty: a new list of copies
List_copy(h, a) ==
    LET out == List_copy_loop(h, h.dtm[a].dtm, <<>>)
    IN  Datum_new(out.h, "list", out.r)

\* LispDatum_copy: Number_copy returns its argument
LispDatum_copy(h, a) ==
    CASE h.dtm[a].kind = "num"  -> Ret(h, a)
      [] h.dtm[a].kind = "list" -> List_copy(h, a)
      [] h.dtm[a].kind = "exn"  -> Exception_copy(h, a)

\* Exception_new: the payload is a copy of the datum, owned
Exception_new(h, a) ==
    LET dtm_cpy == LispDatum_copy(h, a)
    IN  Datum_new(LispDatum_own(dtm_cpy.h, dtm_cpy.r), "exn", dtm_cpy.r)

\* throw: the old g_last_exn.dtm is released and freed, the new one is an
\* owned copy of the datum thrown; r is the new g_last_exn.dtm
throw_dtm(h, old, a) ==
    LET copy == LispDatum_copy(IF old # 0 THEN LispDatum_rls_free(h, old)
                               ELSE h, a)
    IN  Ret(LispDatum_own(copy.h, copy.r), copy.r)

\* Every datum reached from a through Exception payloads and List elements
\* is allocated
RECURSIVE Live(_, _)
Live(h, a) ==
    /\ ~h.dtm[a].freed
    /\ h.dtm[a].kind = "exn" => Live(h, h.dtm[a].dtm)
    /\ h.dtm[a].kind = "list" =>
           \A i \in 1..Len(h.dtm[a].dtm) : Live(h, h.dtm[a].dtm[i])

\* The holders: the bindings of the root environment and g_last_exn.dtm
HoldersLive ==
    /\ \A x \in DOMAIN genv : genv[x] # 0 => Live(objs, genv[x])
    /\ g_last_exn # 0 => Live(objs, g_last_exn)

ExnRunning ==
    ~objs.fatal /\ ~objs.uaf /\ HoldersLive /\ Len(objs.dtm) + 3 <= MaxDtms

\* (def! s 7): the reader's list owns the Number, MalEnv_put owns it, rep
\* owns it, frees the form read and releases it
RepDefNum(s) ==
    /\ ExnRunning
    /\ genv[s] = 0
    /\ LET n == Datum_new(objs, "num", 0)
           h1 == LispDatum_own(LispDatum_own(LispDatum_own(n.h, n.r), n.r), n.r)
       IN  /\ objs' = LispDatum_rls_free(LispDatum_rls_free(h1, n.r), n.r)
           /\ genv' = [genv EXCEPT ![s] = n.r]
    /\ seen' = <<>>
    /\ returned' = [scope |-> "none", sel |-> "none", live |-> TRUE]
    /\ UNCHANGED <<g_last_exn, eqVars, listVars, evalVars, envVars, symVars, libVars>>

\* (def! e (exn x)): eval_list owns the argument, lisp_exn makes the
\* Exception, eval owns it while the evaluated list is freed, MalEnv_put
\* owns it, rep owns and releases it
RepDefExn(e, x) ==
    /\ ExnRunning
    /\ genv[e] = 0
    /\ genv[x] # 0
    /\ LET exn == Exception_new(LispDatum_own(objs, genv[x]), genv[x])
           h1 == LispDatum_rls_free(LispDatum_own(exn.h, exn.r), genv[x])
           h2 == LispDatum_own(LispDatum_own(LispDatum_rls(h1, exn.r), exn.r),
                               exn.r)
       IN  /\ objs' = LispDatum_rls_free(h2, exn.r)
           /\ genv' = [genv EXCEPT ![e] = exn.r]
    /\ seen' = <<>>
    /\ returned' = [scope |-> "none", sel |-> "none", live |-> TRUE]
    /\ UNCHANGED <<g_last_exn, eqVars, listVars, evalVars, envVars, symVars, libVars>>

\* (throw x): eval_list owns the argument, lisp_throw throws it, the
\* evaluated list is freed
RepThrow(x) ==
    /\ ExnRunning
    /\ genv[x] # 0
    /\ LET t == throw_dtm(LispDatum_own(objs, genv[x]), g_last_exn, genv[x])
       IN  /\ objs' = LispDatum_rls_free(t.h, genv[x])
           /\ g_last_exn' = t.r
    /\ seen' = <<>>
    /\ returned' = [scope |-> "none", sel |-> "none", live |-> TRUE]
    /\ UNCHANGED <<genv, eqVars, listVars, evalVars, envVars, symVars, libVars>>

\* The value at address a, as a structure: <<"num">>, <<"exn", payload>>,
\* <<"list", elements>>.  Reading freed memory is undefined: with garbage
\* it reads as <<"garbage">>, without as what was there when it was freed
RECURSIVE Val(_, _, _)
Val(h, a, garbage) ==
    IF h.dtm[a].freed /\ garbage THEN <<"garbage">>
    ELSE CASE h.dtm[a].kind = "num"  -> <<"num">>
           [] h.dtm[a].kind = "exn"  -> <<"exn", Val(h, h.dtm[a].dtm, garbage)>>
           [] h.dtm[a].kind = "list" ->
                 <<"list", [i \in 1..Len(h.dtm[a].dtm) |->
                               Val(h, h.dtm[a].dtm[i], garbage)]>>

\* (try* (throw x) (catch* c 0)): the throw, then thrown_copy, MalEnv_put
\* of the copy in catch_env and MalEnv_free(catch_env), which releases and
\* frees it
RepTryCatch(x) ==
    /\ ExnRunning
    /\ genv[x] # 0
    /\ LET t == throw_dtm(LispDatum_own(objs, genv[x]), g_last_exn, genv[x])
           exn == Exception_new(LispDatum_rls_free(t.h, genv[x]), t.r)
       IN  /\ objs' = LispDatum_rls_free(LispDatum_own(exn.h, exn.r), exn.r)
           /\ g_last_exn' = t.r
           /\ \E garbage \in BOOLEAN :
                 seen' = <<Val(objs, genv[x], FALSE), Val(exn.h, exn.r, garbage)>>
    /\ returned' = [scope |-> "none", sel |-> "none", live |-> TRUE]
    /\ UNCHANGED <<genv, eqVars, listVars, evalVars, envVars, symVars, libVars>>

\* lisp_list of arguments (not none): List_add owns each
RECURSIVE own_all(_, _)
own_all(h, args) ==
    IF args = <<>> THEN h ELSE own_all(LispDatum_own(h, Head(args)), Tail(args))

lisp_list_refc(h, args) == Datum_new(own_all(h, args), "list", args)

\* The evaluation of the number n inside the applications ctors (the
\* outermost first) of exn and list to one argument: eval_list owns the
\* argument's value, the builtin makes the result, eval owns it while the
\* evaluated list is freed and releases it
MaxCtors == 2

RECURSIVE eval_ctors(_, _, _)
eval_ctors(h, ctors, n) ==
    IF ctors = <<>> THEN Ret(h, n)
    ELSE LET arg == eval_ctors(h, Tail(ctors), n)
             out == IF Head(ctors) = "exn"
                    THEN Exception_new(LispDatum_own(arg.h, arg.r), arg.r)
                    ELSE lisp_list_refc(LispDatum_own(arg.h, arg.r), <<arg.r>>)
         IN  Ret(LispDatum_rls(LispDatum_rls_free(LispDatum_own(out.h, out.r),
                                                  arg.r),
                               out.r),
                 out.r)

\* (try* (throw V) (catch* c 0)), V the number 7 inside ctors: the reader's
\* list owns the Number; V is evaluated and thrown as in RepThrow;
\* thrown_copy, MalEnv_put of the copy in catch_env; the handler is
\* evaluated; MalEnv_free(catch_env); rep frees the form read
RepTryCatchValue(ctors) ==
    /\ ExnRunning
    /\ LET n == Datum_new(objs, "num", 0)
           v == eval_ctors(LispDatum_own(n.h, n.r), ctors, n.r)
           thrown == LispDatum_own(v.h, v.r)
           t == throw_dtm(thrown, g_last_exn, v.r)
           exn == Exception_new(LispDatum_rls_free(t.h, v.r), t.r)
           handler == LispDatum_own(exn.h, exn.r)
       IN  /\ objs' = IF Live(handler, exn.r)
                      THEN LispDatum_rls_free(LispDatum_rls_free(handler, exn.r),
                                              n.r)
                      ELSE [handler EXCEPT !.uaf = TRUE]
           /\ g_last_exn' = t.r
           /\ \E garbage \in BOOLEAN :
                 seen' = <<Val(thrown, v.r, FALSE), Val(handler, exn.r, garbage)>>
    /\ returned' = [scope |-> "none", sel |-> "none", live |-> TRUE]
    /\ UNCHANGED <<genv, eqVars, listVars, evalVars, envVars, symVars, libVars>>

\* The hack: `if (out) LispDatum_own(out)` before the scope's environment
\* is freed, `if (out) LispDatum_rls(out)` after
hack_ownMut(h, out) == h

hack_own(h, out) == LispDatum_own(h, out)

hack_rls(h, out) == LispDatum_rls(h, out)

\* HashTbl_free with LispDatum_rls_free on the values bound
RECURSIVE rls_free_all(_, _)
rls_free_all(h, vals) ==
    IF vals = <<>> THEN h
    ELSE rls_free_all(LispDatum_rls_free(h, Head(vals)), Tail(vals))

\* The end of eval_letstar, apply_proc, eval_try_star and eval's last tail
\* call: hack own, MalEnv_free of the environment binding vals, hack release
scope_return(h, vals, out) ==
    hack_rls(rls_free_all(hack_own(h, out), vals), out)

\* The application of a builtin in eval: eval_list has owned the argument
\* values args, the builtin returned out (with its heap); out is owned,
\* the evaluated list freed, out released
builtin_return(out, args) ==
    Ret(LispDatum_rls(rls_free_all(LispDatum_own(out.h, out.r), args), out.r),
        out.r)

\* (list-ref x 0) where x evaluates to the list at l: List_ref
list_ref_0(h, l) ==
    builtin_return(Ret(LispDatum_own(h, l), h.dtm[l].dtm[1]), <<l>>)

\* (exn-datum e) where e evaluates to the Exception at x: Exception_datum
exn_datum(h, x) ==
    builtin_return(Ret(LispDatum_own(h, x), h.dtm[x].dtm), <<x>>)

\* The expression that yields the value returned, evaluated where the
\* symbol is bound to the datum at b: the symbol itself (sel = "binding"),
\* (list-ref x 0) ("element"), (exn-datum e) ("payload") or
\* (list-ref (exn-datum e) 0) ("payload_element")
eval_sel(h, b, sel) ==
    CASE sel = "binding" -> Ret(h, b)
      [] sel = "element" -> list_ref_0(h, b)
      [] sel = "payload" -> exn_datum(h, b)
      [] sel = "payload_element" ->
            builtin_return(Ret(LispDatum_own(exn_datum(h, b).h,
                                             exn_datum(h, b).r),
                               h.dtm[h.dtm[b].dtm].dtm[1]),
                           <<exn_datum(h, b).r>>)

\* The value bound: (list 7), or (list (list 7)) when an element of it is
\* returned
SelCtors(sel) ==
    IF sel \in {"element", "payload_element"} THEN <<"list", "list">>
    ELSE <<"list">>

\* rep after eval returned e: e is owned, the form read is freed (n is
\* its Number), e is printed, released and freed
rep_end(h, e, n) ==
    LispDatum_rls_free(LispDatum_rls_free(LispDatum_own(h, e), n), e)

\* What rep does when eval returned out in heap h: live says that out and
\* all it holds are allocated when rep prints it
RepReturned(scope, sel, h, out, n) ==
    /\ returned' = [scope |-> scope, sel |-> sel,
                    live |-> /\ ~h.fatal
                             /\ Live(LispDatum_rls_free(LispDatum_own(h, out), n),
                                     out)]
    /\ objs' = IF h.fatal THEN h ELSE rep_end(h, out, n)
    /\ seen' = <<>>
    /\ UNCHANGED <<genv, eqVars, listVars, evalVars, envVars, symVars, libVars>>

\* (let* ((x V)) <sel>): eval_letstar binds the value of V in let_env
\* (MalEnv_put owns it), evaluates the body and discards let_env
RepLetReturn(sel) ==
    /\ ExnRunning
    /\ LET n == Datum_new(objs, "num", 0)
           val == eval_ctors(LispDatum_own(n.h, n.r), SelCtors(sel), n.r)
           out == eval_sel(LispDatum_own(val.h, val.r), val.r, sel)
       IN  RepReturned("let", sel, scope_return(out.h, <<val.r>>, out.r),
                       out.r, n.r)
    /\ UNCHANGED g_last_exn

\* ((lambda (x) <sel>) V): eval_list owns the value of V, apply_proc binds
\* it in proc_env, evaluates the body and discards proc_env; eval owns the
\* result while the evaluated list is freed
RepApplyReturn(sel) ==
    /\ ExnRunning
    /\ LET n == Datum_new(objs, "num", 0)
           val == eval_ctors(LispDatum_own(n.h, n.r), SelCtors(sel), n.r)
           out == eval_sel(LispDatum_own(LispDatum_own(val.h, val.r), val.r),
                           val.r, sel)
       IN  RepReturned("apply", sel,
                       builtin_return(Ret(scope_return(out.h, <<val.r>>, out.r),
                                          out.r),
                                      <<val.r>>).h,
                       out.r, n.r)
    /\ UNCHANGED g_last_exn

\* (f V) for f a named (lambda (x) <sel>): eval_list owns the value of V,
\* eval_application_tco binds it in apply_env, the evaluated list is
\* freed; eval goes on with the body.  A symbol is looked up and apply_env
\* is discarded after the loop (hack own and release); for (list-ref x 0)
\* apply_env is freed as soon as the arguments are evaluated
RepTailReturn(sel) ==
    /\ ExnRunning
    /\ LET n == Datum_new(objs, "num", 0)
           val == eval_ctors(LispDatum_own(n.h, n.r), SelCtors(sel), n.r)
           bound == LispDatum_rls_free(
                        LispDatum_own(LispDatum_own(val.h, val.r), val.r), val.r)
       IN  IF sel = "binding"
           THEN RepReturned("tail", sel, scope_return(bound, <<val.r>>, val.r),
                            val.r, n.r)
           ELSE RepReturned("tail", sel,
                            builtin_return(
                                Ret(rls_free_all(LispDatum_own(bound, val.r),
                                                 <<val.r>>),
                                    bound.dtm[val.r].dtm[1]),
                                <<val.r>>).h,
                            bound.dtm[val.r].dtm[1], n.r)
    /\ UNCHANGED g_last_exn

\* (try* (throw V) (catch* e <sel>)): as RepTryCatchValue up to the
\* handler, which is evaluated in catch_env; catch_env is discarded
RepCatchReturn(sel) ==
    /\ ExnRunning
    /\ LET n == Datum_new(objs, "num", 0)
           v == eval_ctors(LispDatum_own(n.h, n.r), SelCtors(sel), n.r)
           t == throw_dtm(LispDatum_own(v.h, v.r), g_last_exn, v.r)
           exn == Exception_new(LispDatum_rls_free(t.h, v.r), t.r)
           out == eval_sel(LispDatum_own(exn.h, exn.r), exn.r, sel)
       IN  /\ RepReturned("catch", sel, scope_return(out.h, <<exn.r>>, out.r),
                          out.r, n.r)
           /\ g_last_exn' = t.r

ExnInit ==
    /\ objs = [dtm |-> <<>>, fatal |-> FALSE, uaf |-> FALSE]
    /\ genv = [x \in {"s", "e", "f"} |-> 0]
    /\ g_last_exn = 0
    /\ seen = <<>>
    /\ returned = [scope |-> "none", sel |-> "none", live |-> TRUE]
    /\ eqargs = <<1, 1, 1>>
    /\ cmps = {}
    /\ ListIdle
    /\ EvalIdle
    /\ EnvIdle
    /\ SymIdle
    /\ LibIdle

ExnNext ==
    \/ RepDefNum("s")
    \/ \E e \in {"e", "f"}, x \in DOMAIN genv : RepDefExn(e, x)
    \/ \E x \in DOMAIN genv : RepThrow(x)
    \/ \E x \in DOMAIN genv : RepTryCatch(x)
    \/ \E ctors \in SeqsUpTo({"exn", "list"}, MaxCtors) : RepTryCatchValue(ctors)
    \/ \E sel \in {"binding", "element"} : RepLetReturn(sel)
    \/ \E sel \in {"binding", "element"} : RepApplyReturn(sel)
    \/ \E sel \in {"binding", "element"} : RepTailReturn(sel)
    \/ \E sel \in {"binding", "payload", "payload_element"} : RepCatchReturn(sel)

SpecExn == ExnInit /\ [][ExnNext]_vars

\* C9: no datum is deallocated while a holder (a binding of the root
\* environment, the payload of an Exception reached from one, the
\* last-exception slot) still references it, after any sequence of
\* definitions, throws and catches of Exception values.
C9_NoDatumFreedWhileHeld == HoldersLive

\* C17: when (throw v) is raised in the body of try*, the catch* symbol is
\* bound, while the handler is evaluated, to an Exception whose payload
\* (its exn-datum) is structurally equal to v: for v a Number, a List, an
\* Exception, and Lists and Exceptions of those.
C17_HandlerGetsPayload ==
    seen # <<>> => seen[2] = <<"exn", seen[1]>>

\* C18: the value a form returns from a scope that is discarded on return
\* (the environment of let*, of a procedure application, of the last tail
\* call, of catch*) is allocated, with all it holds, when rep prints it:
\* when it was held only by the scope's binding (the body is the symbol)
\* and when it was held only by a list or an Exception bound there (the
\* body takes it out with list-ref or exn-datum).
C18_ReturnedValueLive ==
    returned.scope # "none" => returned.live

C18_Witness ==
    /\ returned = [scope |-> "tail", sel |-> "element", live |-> TRUE]
    /\ \E a \in 1..Len(objs.dtm) :
          objs.dtm[a].kind = "list" /\ objs.dtm[a].freed

(***************************************************************************)
(* SpecEnv: the reference counts of environments and closures.  mem is     *)
(* [envs, procs, uaf, fatal]: envs[e] is the MalEnv at address e, [refc,   *)
(* freed, enclosing, binds] (binds: the closures bound in it, in the order *)
(* HashTbl_free visits them), procs[p] the closure at address p, [env,     *)
(* refc, freed]; uaf says that freed memory was accessed, fatal that FATAL *)
(* ended the process.  Freed memory is not handed out again.  Environment  *)
(* 1 is the root, owned once by main.  frames holds, innermost last, the   *)
(* pair <<env, callee>> of every let* and every application of an unnamed  *)
(* procedure whose body is being evaluated, callee 0 for let* ; pending is *)
(* the closure that the form just evaluated returned.  Values that are not *)
(* closures do not own environments and are left out.  The session stops   *)
(* at the first environment freed while in use.                            *)
(***************************************************************************)
MaxEnvs == 4
MaxProcs == 3

\* The environment in which the next form is evaluated
cur == IF frames = <<>> THEN 1 ELSE frames[Len(frames)][1]

MalEnv_own(h, e) ==
    IF h.envs[e].freed THEN [h EXCEPT !.uaf = TRUE]
    ELSE [h EXCEPT !.envs[e].refc = @ + 1]

\* MalEnv_release: the count is decremented whatever its value
MalEnv_release(h, e) ==
    IF h.envs[e].freed THEN [h EXCEPT !.uaf = TRUE]
    ELSE [h EXCEPT !.envs[e].refc = @ - 1]

\* MalEnv_new: count 0, the enclosing environment is owned
Env_new(h, enclosing) ==
    [MalEnv_own(h, enclosing) EXCEPT
        !.envs = Append(@, [refc |-> 0, freed |-> FALSE,
                            enclosing |-> enclosing, binds |-> <<>>])]

\* Proc_new: count 0, the environment closed over is owned
Proc_new(h, env) ==
    [MalEnv_own(h, env) EXCEPT
        !.procs = Append(@, [env |-> env, refc |-> 0, freed |-> FALSE])]

Proc_own(h, p) ==
    IF h.procs[p].freed THEN [h EXCEPT !.uaf = TRUE]
    ELSE [h EXCEPT !.procs[p].refc = @ + 1]

\* _LispDatum_rls of a closure
Proc_rls(h, p) ==
    IF h.procs[p].freed THEN [h EXCEPT !.uaf = TRUE]
    ELSE IF h.procs[p].refc <= 0 THEN [h EXCEPT !.fatal = TRUE]
    ELSE [h EXCEPT !.procs[p].refc = @ - 1]

RECURSIVE MalEnv_free(_, _)
RECURSIVE Proc_free(_, _)
RECURSIVE HashTbl_free(_, _)

\* LispDatum_free of a closure: refused while the count is positive
Proc_drop(h, p) ==
    IF h.uaf \/ h.fatal THEN h
    ELSE IF h.procs[p].freed THEN [h EXCEPT !.uaf = TRUE]
    ELSE IF h.procs[p].refc > 0 THEN h
    ELSE Proc_free(h, p)

\* Proc_free: MalEnv_release(proc->env); MalEnv_free(proc->env); free(proc)
Proc_free(h, p) ==
    LET h1 == MalEnv_free(MalEnv_release(h, h.procs[p].env), h.procs[p].env)
    IN  [h1 EXCEPT !.procs[p].freed = TRUE]

\* HashTbl_free with LispDatum_rls_free on the values
HashTbl_free(h, binds) ==
    IF binds = <<>> THEN h
    ELSE HashTbl_free(Proc_drop(Proc_rls(h, Head(binds)), Head(binds)),
                      Tail(binds))

\* MalEnv_free: refused while the count is positive; the bindings are
\* released and freed, the enclosing environment is released.  An
\* environment entered again while it is being freed counts as freed.
MalEnv_free(h, e) ==
    IF h.uaf \/ h.fatal THEN h
    ELSE IF h.envs[e].freed THEN [h EXCEPT !.uaf = TRUE]
    ELSE IF h.envs[e].refc > 0 THEN h
    ELSE MalEnv_release(
             HashTbl_free([h EXCEPT !.envs[e].freed = TRUE], h.envs[e].binds),
             h.envs[e].enclosing)

\* No environment of an evaluation in progress is freed
FramesLive == \A i \in 1..Len(frames) : ~mem.envs[frames[i][1]].freed

\* No closure that is allocated closes over a freed environment
ClosuresLive ==
    \A p \in 1..Len(mem.procs) :
        ~mem.procs[p].freed => ~mem.envs[mem.procs[p].env].freed

EnvRunning == ~mem.uaf /\ ~mem.fatal /\ FramesLive /\ ClosuresLive

\* eval_letstar up to the body: let_env = MalEnv_new(env)
EnvLet ==
    /\ EnvRunning
    /\ pending = 0
    /\ Len(mem.envs) < MaxEnvs
    /\ mem' = Env_new(mem, cur)
    /\ frames' = Append(frames, <<Len(mem.envs) + 1, 0>>)
    /\ UNCHANGED <<pending, eqVars, listVars, evalVars, exnVars, symVars, libVars>>

\* eval_fnstar: (lambda ...) evaluated in the current environment
EnvLambda ==
    /\ EnvRunning
    /\ pending = 0
    /\ Len(mem.procs) < MaxProcs
    /\ mem' = Proc_new(mem, cur)
    /\ pending' = Len(mem.procs) + 1
    /\ UNCHANGED <<frames, eqVars, listVars, evalVars, exnVars, symVars, libVars>>

\* The application of the unnamed closure just evaluated: eval_list adds
\* it to the evaluated list (List_add owns it), apply_proc makes
\* proc_env = MalEnv_new(proc->env)
EnvApply ==
    /\ EnvRunning
    /\ pending # 0
    /\ Len(mem.envs) < MaxEnvs
    /\ mem' = Env_new(Proc_own(mem, pending), mem.procs[pending].env)
    /\ frames' = Append(frames, <<Len(mem.envs) + 1, pending>>)
    /\ pending' = 0
    /\ UNCHANGED <<eqVars, listVars, evalVars, exnVars, symVars, libVars>>

\* The value of a form that is not the last of a body or of a do (and, at
\* the prompt, the value rep printed): LispDatum_free
EnvDrop ==
    /\ EnvRunning
    /\ pending # 0
    /\ mem' = Proc_drop(mem, pending)
    /\ pending' = 0
    /\ UNCHANGED <<frames, eqVars, listVars, evalVars, exnVars, symVars, libVars>>

\* (def! name <closure>) as a form that is not the last: MalEnv_put owns
\* the closure, LispDatum_free of the value of def! is refused
EnvDef ==
    /\ EnvRunning
    /\ pending # 0
    /\ mem' = Proc_drop([Proc_own(mem, pending) EXCEPT
                            !.envs[cur].binds = Append(@, pending)], pending)
    /\ pending' = 0
    /\ UNCHANGED <<frames, eqVars, listVars, evalVars, exnVars, symVars, libVars>>

\* The end of apply_proc and of eval_letstar: own(out), MalEnv_free of the
\* frame, rls(out); after apply_proc eval owns out, frees the evaluated
\* list (which releases and frees the callee) and releases out
EnvReturn ==
    /\ EnvRunning
    /\ frames # <<>>
    /\ LET env == frames[Len(frames)][1]
           callee == frames[Len(frames)][2]
           h0 == IF pending # 0 THEN Proc_own(mem, pending) ELSE mem
           h1 == MalEnv_free(h0, env)
           h2 == IF pending # 0 THEN Proc_rls(h1, pending) ELSE h1
           h3 == IF pending # 0 THEN Proc_own(h2, pending) ELSE h2
           h4 == Proc_drop(Proc_rls(h3, callee), callee)
           h5 == IF pending # 0 THEN Proc_rls(h4, pending) ELSE h4
       IN  mem' = IF callee = 0 THEN h2 ELSE h5
    /\ frames' = SubSeq(frames, 1, Len(frames) - 1)
    /\ UNCHANGED <<pending, eqVars, listVars, evalVars, exnVars, symVars, libVars>>

EnvInit ==
    /\ mem = [envs |-> << [refc |-> 1, freed |-> FALSE, enclosing |-> 0,
                           binds |-> <<>>] >>,
              procs |-> <<>>, uaf |-> FALSE, fatal |-> FALSE]
    /\ frames = <<>>
    /\ pending = 0
    /\ eqargs = <<1, 1, 1>>
    /\ cmps = {}
    /\ ListIdle
    /\ EvalIdle
    /\ ExnIdle
    /\ SymIdle
    /\ LibIdle

EnvNext == EnvLet \/ EnvLambda \/ EnvApply \/ EnvDrop \/ EnvDef \/ EnvReturn

SpecEnv == EnvInit /\ [][EnvNext]_vars

\* C10: the environment created for a procedure application or for let*
\* is not released while its evaluation is in progress, nor while a
\* closure that is still allocated captured it; in particular not when a
\* closure created inside the frame is dropped before the frame returns.
C10_FrameNotReleasedEarly == FramesLive /\ ClosuresLive


(***************************************************************************)
(* SpecSym: the symbol table.  symtab is g_symbol_table, a HashTbl [cap,   *)
(* size, buckets]: buckets[i] is the chain at index i, the Symbols it      *)
(* holds, the head first (a bucket's key is its Symbol's name).  symbols   *)
(* is the heap of Symbols, [name, refc, freed].  hash_simple_str is not    *)
(* part of the sources read: hashes is any function from names to          *)
(* 0..MaxHash, chosen when the session starts.  init_symbol_table makes    *)
(* the table with 256 buckets; here it starts with SymCap.                 *)
(* SpecSym makes calls of Symbol_intern only, as the test main of          *)
(* types_oop.c does; SpecSymRep has main's definitions of builtins and the *)
(* REPL as well, with forms (symbol "name").                               *)
(***************************************************************************)
SymNames == {"a", "b", "c"}
MaxHash == 3
SymCap == 2
MaxCalls == 4

SIZE_THRESH_RATIO == <<3, 4>>
GROW_RATIO == 2

\* A table and the Symbol heap, and an operation's result with them
Tbl(tbl, syms) == [tbl |-> tbl, syms |-> syms]
TblRet(tbl, syms, r) == [tbl |-> tbl, syms |-> syms, r |-> r]

\* HashTbl_newc
HashTbl_newc(cap) ==
    [cap |-> cap, size |-> 0, buckets |-> [i \in 0..(cap - 1) |-> <<>>]]

\* HashTbl_keyidx: hashkey(key) % cap
HashTbl_keyidx(tbl, name) == hashes[name] % tbl.cap

\* The buckets of the chains i..cap-1, in the order try_grow visits them
RECURSIVE AllBuckets(_, _)
AllBuckets(tbl, i) ==
    IF i >= tbl.cap THEN <<>> ELSE tbl.buckets[i] \o AllBuckets(tbl, i + 1)

\* try_grow, the loop: each bucket becomes the head of the chain at its
\* new index
RECURSIVE try_grow_loop(_, _, _, _)
try_grow_loop(bkts, new_buckets, newcap, syms) ==
    IF bkts = <<>> THEN new_buckets
    ELSE try_grow_loop(Tail(bkts),
             [new_buckets EXCEPT ![hashes[syms[Head(bkts)].name] % newcap] =
                                     <<Head(bkts)>> \o @],
             newcap, syms)

\* try_grow: nothing while size < SIZE_THRESH_RATIO * cap; else the
\* capacity is multiplied by GROW_RATIO and every bucket rehashed
try_grow(tbl, syms) ==
    IF SIZE_THRESH_RATIO[2] * tbl.size < SIZE_THRESH_RATIO[1] * tbl.cap THEN tbl
    ELSE [tbl EXCEPT
            !.cap = tbl.cap * GROW_RATIO,
            !.buckets = try_grow_loop(AllBuckets(tbl, 0),
                            [i \in 0..(tbl.cap * GROW_RATIO - 1) |-> <<>>],
                            tbl.cap * GROW_RATIO, syms)]

\* Bucket_find: the value of the first bucket of the chain whose key is
\* name (streq), 0 for NULL
RECURSIVE Bucket_find(_, _, _)
Bucket_find(chain, name, syms) ==
    IF chain = <<>> THEN 0
    ELSE IF syms[Head(chain)].name = name THEN Head(chain)
    ELSE Bucket_find(Tail(chain), name, syms)

\* HashTbl_get on g_symbol_table
Tbl_get(tbl, name, syms) ==
    Bucket_find(tbl.buckets[HashTbl_keyidx(tbl, name)], name, syms)

\* The chain without its first bucket whose key is name
RECURSIVE Bucket_unlink(_, _, _)
Bucket_unlink(chain, name, syms) ==
    IF chain = <<>> THEN <<>>
    ELSE IF syms[Head(chain)].name = name THEN Tail(chain)
    ELSE <<Head(chain)>> \o Bucket_unlink(Tail(chain), name, syms)

\* HashTbl_pop on g_symbol_table: the table without the key
Tbl_pop(tbl, name, syms) ==
    IF Tbl_get(tbl, name, syms) = 0 THEN tbl
    ELSE [tbl EXCEPT !.buckets[HashTbl_keyidx(tbl, name)] =
                         Bucket_unlink(@, name, syms),
                     !.size = @ - 1]

\* A variant of HashTbl_put that leaves the table as it is when it is full
Tbl_putMut(tbl, name, sym, syms) ==
    IF SIZE_THRESH_RATIO[2] * tbl.size >= SIZE_THRESH_RATIO[1] * tbl.cap THEN tbl
    ELSE [Tbl_pop(try_grow(tbl, syms), name, syms) EXCEPT
            !.buckets[hashes[name] % try_grow(tbl, syms).cap] = <<sym>> \o @,
            !.size = @ + 1]

\* HashTbl_put on g_symbol_table: try_grow, HashTbl_pop of the key, the new
\* bucket becomes the head of its chain
Tbl_put(tbl, name, sym, syms) ==
    [Tbl_pop(try_grow(tbl, syms), name, syms) EXCEPT
        !.buckets[hashes[name] % try_grow(tbl, syms).cap] = <<sym>> \o @,
        !.size = @ + 1]

\* Symbol_intern: the Symbol the table holds for name, else a new Symbol
\* (count 0) that is put into the table
Symbol_intern(tbl, syms, name) ==
    IF Tbl_get(tbl, name, syms) # 0
    THEN TblRet(tbl, syms, Tbl_get(tbl, name, syms))
    ELSE TblRet(Tbl_put(tbl, name, Len(syms) + 1,
                        Append(syms, [name |-> name, refc |-> 0, freed |-> FALSE])),
                Append(syms, [name |-> name, refc |-> 0, freed |-> FALSE]),
                Len(syms) + 1)

\* Symbol_free: the Symbol is popped from the table and deallocated
Symbol_free(tbl, syms, sym) ==
    Tbl(Tbl_pop(tbl, syms[sym].name, syms), [syms EXCEPT ![sym].freed = TRUE])

\* LispDatum_free of a Symbol: refused while the count is positive
Symbol_rls_free(tbl, syms, sym) ==
    IF syms[sym].refc - 1 > 0
    THEN Tbl(tbl, [syms EXCEPT ![sym].refc = @ - 1])
    ELSE Symbol_free(tbl, [syms EXCEPT ![sym].refc = @ - 1], sym)

\* A call of Symbol_intern whose result the caller keeps
SymIntern(name) ==
    /\ Len(calls) < MaxCalls
    /\ LET s == Symbol_intern(symtab, symbols, name)
       IN  /\ symtab' = s.tbl
           /\ symbols' = s.syms
           /\ calls' = Append(calls, <<name, s.r>>)
    /\ UNCHANGED <<hashes, eqVars, listVars, evalVars, exnVars, envVars, libVars>>

\* DEF(name, ...) of core_def_procs: Symbol_intern, Proc_builtin owns the
\* name, MalEnv_put owns the key
SymDef(name) ==
    /\ Len(calls) < MaxCalls
    /\ LET s == Symbol_intern(symtab, symbols, name)
       IN  /\ symtab' = s.tbl
           /\ symbols' = [s.syms EXCEPT ![s.r].refc = @ + 2]
           /\ calls' = Append(calls, <<name, s.r>>)
    /\ UNCHANGED <<hashes, eqVars, listVars, evalVars, exnVars, envVars, libVars>>

\* rep of (symbol "name"): lisp_symbol interns the name; eval owns the
\* value while the evaluated list is freed and releases it; rep owns it,
\* frees the form read, prints the value, releases and frees it
RepSymbol(name) ==
    /\ Len(calls) < MaxCalls
    /\ LET s == Symbol_intern(symtab, symbols, name)
           e == Symbol_rls_free(s.tbl, [s.syms EXCEPT ![s.r].refc = @ + 1], s.r)
       IN  /\ symtab' = e.tbl
           /\ symbols' = e.syms
           /\ calls' = Append(calls, <<name, s.r>>)
    /\ UNCHANGED <<hashes, eqVars, listVars, evalVars, exnVars, envVars, libVars>>

\* init_symbol_table, and the hash function
SymInit ==
    /\ symtab = HashTbl_newc(SymCap)
    /\ symbols = <<>>
    /\ hashes \in [SymNames -> 0..MaxHash]
    /\ calls = <<>>
    /\ eqargs = <<1, 1, 1>>
    /\ cmps = {}
    /\ ListIdle
    /\ EvalIdle
    /\ ExnIdle
    /\ EnvIdle
    /\ LibIdle

SymNext == \E name \in SymNames : SymIntern(name)

SpecSym == SymInit /\ [][SymNext]_vars

SymRepNext ==
    \/ \E name \in SymNames : SymDef(name)
    \/ \E name \in SymNames : RepSymbol(name)

SpecSymRep == SymInit /\ [][SymRepNext]_vars

\* C19: two calls of Symbol_intern with the same name return the same
\* Symbol, whatever names are interned between them, also when the table
\* has grown and rehashed its buckets in between.
C19_InternIdentity ==
    \A i, j \in 1..Len(calls) : calls[i][1] = calls[j][1] => calls[i][2] = calls[j][2]

\* The table has grown between two calls for the same name, with other
\* names interned between them
C19_Witness ==
    /\ symtab.cap > SymCap
    /\ Len(calls) = 4
    /\ calls[1][1] = calls[4][1]
    /\ calls[1][2] = calls[4][2]
    /\ {calls[2][1], calls[3][1]} = SymNames \ {calls[1][1]}

\* C20: a Symbol that has been interned stays in the symbol table and
\* allocated: after any number of REPL iterations every Symbol that
\* Symbol_intern has returned is allocated and is what the table holds for
\* its name.
C20_InternedStays ==
    \A i \in 1..Len(calls) :
        /\ ~symbols[calls[i][2]].freed
        /\ Tbl_get(symtab, calls[i][1], symbols) = calls[i][2]

(***************************************************************************)
(* SpecTbl: the hash table of hashtbl.c on its own.  htbl is a HashTbl     *)
(* [cap, size, buckets]: buckets[i] is the chain at index i, a sequence    *)
(* of buckets <<key, val>>, the head first.  Keys are names, hashed by     *)
(* hashes, and values are small numbers (0 stands for NULL).  hmap is the  *)
(* finite map the operations made so far define, hret the last operation   *)
(* with what it returned (r) and what hmap held for its key before (was).  *)
(* HashTbl_new makes a table with DEFAULT_CAPACITY (16) chains; here it    *)
(* starts with TblCap.                                                     *)
(***************************************************************************)
TblCap == 2
TblVals == {1, 2}

\* Bucket_find on a chain of buckets <<key, val>>: the value of the first
\* bucket whose key is key, 0 for NULL
RECURSIVE Bucket_val(_, _)
Bucket_val(bkt, key) ==
    IF bkt = <<>> THEN 0
    ELSE IF Head(bkt)[1] = key THEN Head(bkt)[2]
    ELSE Bucket_val(Tail(bkt), key)

\* HashTbl_get
Hash_get(tbl, key) == Bucket_val(tbl.buckets[HashTbl_keyidx(tbl, key)], key)

\* HashTbl_pop, the loop: the chain without its first bucket whose key is
\* key
RECURSIVE Bucket_drop(_, _)
Bucket_drop(bkt, key) ==
    IF bkt = <<>> THEN <<>>
    ELSE IF Head(bkt)[1] = key THEN Tail(bkt)
    ELSE <<Head(bkt)>> \o Bucket_drop(Tail(bkt), key)

\* HashTbl_pop: the first bucket of the key's chain whose key is key is
\* unlinked and size decremented; its value is returned, NULL when there
\* is none
Hash_pop(tbl, key) ==
    IF \E i \in 1..Len(tbl.buckets[HashTbl_keyidx(tbl, key)]) :
           tbl.buckets[HashTbl_keyidx(tbl, key)][i][1] = key
    THEN [tbl |-> [tbl EXCEPT !.buckets[HashTbl_keyidx(tbl, key)] =
                                  Bucket_drop(@, key),
                              !.size = @ - 1],
          r |-> Hash_get(tbl, key)]
    ELSE [tbl |-> tbl, r |-> 0]

\* The buckets of the chains i..oldcap-1, in the order try_grow visits them
RECURSIVE HashTbl_chains(_, _, _)
HashTbl_chains(buckets, i, oldcap) ==
    IF i >= oldcap THEN <<>>
    ELSE buckets[i] \o HashTbl_chains(buckets, i + 1, oldcap)

\* try_grow, the loop: each bucket becomes the head of the chain at its
\* index under the new capacity
RECURSIVE HashTbl_rehash(_, _, _)
HashTbl_rehash(bkts, new_buckets, newcap) ==
    IF bkts = <<>> THEN new_buckets
    ELSE HashTbl_rehash(Tail(bkts),
             [new_buckets EXCEPT ![hashes[Head(bkts)[1]] % newcap] =
                                     <<Head(bkts)>> \o @],
             newcap)

\* try_grow: nothing while size < SIZE_THRESH_RATIO * cap; else the
\* capacity is multiplied by GROW_RATIO and every bucket rehashed
HashTbl_try_grow(tbl) ==
    IF SIZE_THRESH_RATIO[2] * tbl.size < SIZE_THRESH_RATIO[1] * tbl.cap THEN tbl
    ELSE [tbl EXCEPT
            !.cap = tbl.cap * GROW_RATIO,
            !.buckets = HashTbl_rehash(HashTbl_chains(tbl.buckets, 0, tbl.cap),
                            [i \in 0..(tbl.cap * GROW_RATIO - 1) |-> <<>>],
                            tbl.cap * GROW_RATIO)]

\* HashTbl_put, after try_grow and HashTbl_pop (popd): the new bucket
\* becomes the head of its chain, size is incremented, the popped value
\* is returned
HashTbl_link(popd, key, val) ==
    [tbl |-> [popd.tbl EXCEPT !.buckets[HashTbl_keyidx(popd.tbl, key)] =
                                  <<<<key, val>>>> \o @,
                              !.size = @ + 1],
     r |-> popd.r]

\* A variant of HashTbl_put that does not pop the key first
Hash_putMut(tbl, key, val) ==
    HashTbl_link([tbl |-> HashTbl_try_grow(tbl), r |-> Hash_get(tbl, key)],
                 key, val)

\* HashTbl_put
Hash_put(tbl, key, val) ==
    HashTbl_link(Hash_pop(HashTbl_try_grow(tbl), key), key, val)

TblPut(key, val) ==
    /\ htbl' = Hash_put(htbl, key, val).tbl
    /\ hmap' = [hmap EXCEPT ![key] = val]
    /\ hret' = [op |-> "put", key |-> key, r |-> Hash_put(htbl, key, val).r,
                was |-> hmap[key]]
    /\ UNCHANGED <<hashes, symtab, symbols, calls, getVars, numVars,
                   eqVars, listVars, evalVars, exnVars, envVars>>

TblPop(key) ==
    /\ htbl' = Hash_pop(htbl, key).tbl
    /\ hmap' = [hmap EXCEPT ![key] = 0]
    /\ hret' = [op |-> "pop", key |-> key, r |-> Hash_pop(htbl, key).r,
                was |-> hmap[key]]
    /\ UNCHANGED <<hashes, symtab, symbols, calls, getVars, numVars,
                   eqVars, listVars, evalVars, exnVars, envVars>>

TblGet(key) ==
    /\ hret' = [op |-> "get", key |-> key, r |-> Hash_get(htbl, key),
                was |-> hmap[key]]
    /\ UNCHANGED <<htbl, hmap, hashes, symtab, symbols, calls, getVars, numVars,
                   eqVars, listVars, evalVars, exnVars, envVars>>

\* HashTbl_newc(TblCap, hashkey), and the hash function
TblInit ==
    /\ htbl = HashTbl_newc(TblCap)
    /\ hmap = [k \in SymNames |-> 0]
    /\ hret = [op |-> "none"]
    /\ hashes \in [SymNames -> 0..MaxHash]
    /\ symtab = [cap |-> 0, size |-> 0, buckets |-> <<>>]
    /\ symbols = <<>>
    /\ calls = <<>>
    /\ GetIdle
    /\ NumIdle
    /\ eqargs = <<1, 1, 1>>
    /\ cmps = {}
    /\ ListIdle
    /\ EvalIdle
    /\ ExnIdle
    /\ EnvIdle

TblNext ==
    \/ \E key \in SymNames, val \in TblVals : TblPut(key, val)
    \/ \E key \in SymNames : TblPop(key)
    \/ \E key \in SymNames : TblGet(key)

SpecTbl == TblInit /\ [][TblNext]_vars

\* The number of buckets of the table whose key is key
KeyCount(tbl, key) ==
    Cardinality({<<i, j>> \in (0..(tbl.cap - 1)) \X (1..Cardinality(SymNames) + 1) :
                    /\ j <= Len(tbl.buckets[i])
                    /\ tbl.buckets[i][j][1] = key})

\* C28: the hash table is a finite map under any sequence of HashTbl_put,
\* HashTbl_pop and HashTbl_get, growth included: get(k) is the value of the
\* latest put(k) not followed by pop(k) and NULL otherwise, put (and pop)
\* return the value the key had or NULL, each key is in at most one bucket,
\* and size is the number of keys present.
C28_FiniteMap ==
    /\ \A k \in SymNames : Hash_get(htbl, k) = hmap[k]
    /\ hret.op # "none" => hret.r = hret.was
    /\ \A k \in SymNames : KeyCount(htbl, k) <= 1
    /\ \A k \in SymNames : KeyCount(htbl, k) = 1 <=> hmap[k] # 0
    /\ htbl.size = Cardinality({k \in SymNames : hmap[k] # 0})

\* A put has replaced the value of a key in a table that has grown twice
\* and holds every key, two of them in one chain
C28_Witness ==
    /\ htbl.cap = TblCap * GROW_RATIO * GROW_RATIO
    /\ hret.op = "put" /\ hret.r # 0 /\ hret.r # hmap[hret.key]
    /\ \A k \in SymNames : hmap[k] # 0
    /\ \E i \in 0..(htbl.cap - 1) : Len(htbl.buckets[i]) >= 2

(***************************************************************************)
(* SpecGet: MalEnv_put and MalEnv_get on chains of environments whose      *)
(* binds are hash tables (the evaluator above keeps binds as a plain       *)
(* sequence).  malenvs[e] is a MalEnv [binds, enclosing]; the keys are the *)
(* interned Symbols of GetNames, hashed by name, the values are datums     *)
(* 1, 2, ... (each put binds a datum newly made; 0 stands for NULL).       *)
(* latest[e][id] is the value last put for id in e.                        *)
(***************************************************************************)
MaxFrames == 2
MaxPuts == 4
GetNames == {"a", "b"}

\* MalEnv_new with binds of TblCap chains
MalEnv_new_tbl(enclosing) == [binds |-> HashTbl_newc(TblCap), enclosing |-> enclosing]

\* MalEnv_put: HashTbl_put into env->binds; nothing for a NULL env
MalEnv_put_tbl(envs, env, id, datum) ==
    IF env = 0 THEN envs
    ELSE [envs EXCEPT ![env].binds = Hash_put(@, id, datum).tbl]

\* A variant of MalEnv_get that looks into the root of the chain only
RECURSIVE MalEnv_get_tblMut(_, _, _)
MalEnv_get_tblMut(envs, e, id) ==
    IF e = 0 THEN 0
    ELSE IF envs[e].enclosing = 0 THEN Hash_get(envs[e].binds, id)
    ELSE MalEnv_get_tblMut(envs, envs[e].enclosing, id)

\* MalEnv_get, `while (e != NULL && dtm == NULL)`: the first value found
\* from e along the enclosing links, NULL when there is none
RECURSIVE MalEnv_get_tbl(_, _, _)
MalEnv_get_tbl(envs, e, id) ==
    IF e = 0 THEN 0
    ELSE IF Hash_get(envs[e].binds, id) # 0 THEN Hash_get(envs[e].binds, id)
    ELSE MalEnv_get_tbl(envs, envs[e].enclosing, id)

\* The number of puts made: the datums are numbered as they are made
RECURSIVE MaxDatum(_)
MaxDatum(e) ==
    IF e = 0 THEN 0
    ELSE LET m == MaxDatum(e - 1)
             here == {latest[e][id] : id \in GetNames}
         IN  CHOOSE x \in here \cup {m} : \A y \in here \cup {m} : y <= x

NPuts == MaxDatum(Len(latest))

GetNew(enclosing) ==
    /\ Len(malenvs) < MaxFrames
    /\ malenvs' = Append(malenvs, MalEnv_new_tbl(enclosing))
    /\ latest' = Append(latest, [id \in GetNames |-> 0])
    /\ UNCHANGED <<symVars, tblVars, numVars, eqVars, listVars, evalVars, exnVars, envVars>>

GetPut(env, id) ==
    /\ NPuts < MaxPuts
    /\ malenvs' = MalEnv_put_tbl(malenvs, env, id, NPuts + 1)
    /\ latest' = [latest EXCEPT ![env][id] = NPuts + 1]
    /\ UNCHANGED <<symVars, tblVars, numVars, eqVars, listVars, evalVars, exnVars, envVars>>

\* The root environment, and the hash function
GetInit ==
    /\ malenvs = <<MalEnv_new_tbl(0)>>
    /\ latest = <<[id \in GetNames |-> 0]>>
    /\ hashes \in [GetNames -> 0..MaxHash]
    /\ symtab = [cap |-> 0, size |-> 0, buckets |-> <<>>]
    /\ symbols = <<>>
    /\ calls = <<>>
    /\ TblIdle
    /\ NumIdle
    /\ eqargs = <<1, 1, 1>>
    /\ cmps = {}
    /\ ListIdle
    /\ EvalIdle
    /\ ExnIdle
    /\ EnvIdle

GetNext ==
    \/ \E enclosing \in 1..Len(malenvs) : GetNew(enclosing)
    \/ \E env \in 1..Len(malenvs), id \in GetNames : GetPut(env, id)

SpecGet == GetInit /\ [][GetNext]_vars

\* The value most recently put for id in the nearest frame, from e along
\* the enclosing links, that binds id; 0 when no frame binds it
RECURSIVE Nearest(_, _)
Nearest(e, id) ==
    IF e = 0 THEN 0
    ELSE IF latest[e][id] # 0 THEN latest[e][id]
    ELSE Nearest(malenvs[e].enclosing, id)

\* C21: after any sequence of puts on a chain of environments, get(env,
\* sym) is the value most recently put for sym in the nearest frame, from
\* env along the enclosing links, that binds sym, and unbound when no frame
\* of the chain binds it (so that a put changes get for its own symbol, in
\* its own frame and the frames below it, and nothing else).
C21_GetNearest ==
    \A env \in 1..Len(malenvs), id \in GetNames :
        MalEnv_get_tbl(malenvs, env, id) = Nearest(env, id)

\* The inner frame shadows a binding of the root and sees another binding
\* of the root, whose table has grown when its first binding was replaced
C21_Witness ==
    /\ Len(malenvs) = 2
    /\ malenvs[1].binds.cap > TblCap
    /\ \E id \in GetNames :
          /\ latest[1][id] # 0 /\ latest[2][id] > latest[1][id]
          /\ MalEnv_get_tbl(malenvs, 2, id) = latest[2][id]
          /\ MalEnv_get_tbl(malenvs, 1, id) = latest[1][id]
    /\ \E id \in GetNames :
          /\ latest[2][id] = 0
          /\ MalEnv_get_tbl(malenvs, 2, id) = latest[1][id]
          /\ latest[1][id] # 0

(***************************************************************************)
(*                          64-BIT NUMBERS                                 *)
(*                                                                         *)
(* Number.val is an int64_t.  A value is the sequence of the four 16-bit   *)
(* limbs of its two's complement, most significant first, so that the      *)
(* arithmetic of the code keeps its width.                                 *)
(***************************************************************************)
Limb == 2^16

Int64_zero == <<0, 0, 0, 0>>
INT64_MAX == <<Limb \div 2 - 1, Limb - 1, Limb - 1, Limb - 1>>
INT64_MIN == <<Limb \div 2, 0, 0, 0>>

Int64_isneg(x) == x[1] >= Limb \div 2

\* a - b modulo 2^64: limb by limb with borrow
Int64_sub(a, b) ==
    LET d4 == a[4] - b[4]
        d3 == a[3] - b[3] - (IF d4 < 0 THEN 1 ELSE 0)
        d2 == a[2] - b[2] - (IF d3 < 0 THEN 1 ELSE 0)
        d1 == a[1] - b[1] - (IF d2 < 0 THEN 1 ELSE 0)
    IN  <<(d1 + Limb) % Limb, (d2 + Limb) % Limb, (d3 + Limb) % Limb,
          (d4 + Limb) % Limb>>

\* The int64_t of a small integer n
Int64_of(n) ==
    IF n >= 0 THEN <<0, 0, n \div Limb, n % Limb>>
    ELSE Int64_sub(Int64_zero, <<0, 0, (-n) \div Limb, (-n) % Limb>>)

\* a - b is not representable: the operands differ in sign and the wrapped
\* difference has the sign of b
Int64_sub_overflows(a, b) ==
    /\ Int64_isneg(a) # Int64_isneg(b)
    /\ Int64_isneg(Int64_sub(a, b)) # Int64_isneg(a)

\* The numerical order of two values: the limbs compared from the most
\* significant one, the sign bit inverted
Int64_key(x) == <<(x[1] + Limb \div 2) % Limb, x[2], x[3], x[4]>>

Int64_less(a, b) ==
    \E i \in 1..4 :
        /\ Int64_key(a)[i] < Int64_key(b)[i]
        /\ \A j \in 1..(i - 1) : a[j] = b[j]

\* Number_cmp: `int64_t d = a->val - b->val; return d ? (d > 0 ? 1 : -1) : 0;`
\* The set of results: when the subtraction overflows its behaviour is
\* undefined, and a build either wraps the difference or, having assumed
\* that it cannot overflow, compares the operands
Number_cmp(a, b) ==
    LET d == Int64_sub(a, b)
        wrapped == IF d = Int64_zero THEN 0
                   ELSE IF ~Int64_isneg(d) THEN 1 ELSE -1
        compared == IF a = b THEN 0 ELSE IF Int64_less(b, a) THEN 1 ELSE -1
    IN  IF Int64_sub_overflows(a, b) THEN {wrapped, compared} ELSE {wrapped}

\* lisp_gt: LispDatum_bool(Number_cmp(arg1, arg2) > 0)
lisp_gt(a, b) == {c > 0 : c \in Number_cmp(a, b)}

(***************************************************************************)
(* SpecNum: (> a b) on Numbers near zero and near both ends of the range.  *)
(***************************************************************************)
MaxSmall == 2

NumVals ==
    {Int64_of(n) : n \in -MaxSmall..MaxSmall}
        \cup {Int64_sub(INT64_MAX, Int64_of(n)) : n \in 0..MaxSmall}
        \cup {Int64_sub(INT64_MIN, Int64_of(-n)) : n \in 0..MaxSmall}
        \cup {<<0, 1, 0, 0>>, Int64_sub(Int64_zero, <<0, 1, 0, 0>>)}

Gt(a, b) ==
    /\ \E r \in lisp_gt(a, b) : numop' = [op |-> "gt", a |-> a, b |-> b, r |-> r]
    /\ UNCHANGED <<eqVars, listVars, evalVars, exnVars, envVars, symVars,
                   getVars, tblVars, rwop>>

NumInit ==
    /\ eqargs = <<1, 1, 1>>
    /\ cmps = {}
    /\ ListIdle
    /\ EvalIdle
    /\ ExnIdle
    /\ EnvIdle
    /\ SymIdle
    /\ LibIdle

NumNext == \E a, b \in NumVals : Gt(a, b)

SpecNum == NumInit /\ [][NumNext]_vars

\* C30: (> a b) returns true exactly when a is numerically greater than b,
\* for all signed 64-bit Numbers a and b, also when a - b is outside the
\* 64-bit range
C30_GtIsNumericOrder ==
    numop.op = "gt" => numop.r = Int64_less(numop.b, numop.a)

\* (> a b) is the numerical order whenever a - b is representable
C30_GtWithinRange ==
    numop.op = "gt" /\ ~Int64_sub_overflows(numop.a, numop.b) =>
        numop.r = Int64_less(numop.b, numop.a)

(***************************************************************************)
(*                       THE PRINTER AND THE READER                        *)
(*                                                                         *)
(* A text is a sequence of characters (one-character strings); the name of *)
(* a Symbol and the contents of a String are texts, the value of a Number  *)
(* is an int64_t as above.                                                 *)
(***************************************************************************)
DQUOTE == "\""
BSLASH == "\\"
NEWLINE == "\n"

Digits == <<"0", "1", "2", "3", "4", "5", "6", "7", "8", "9">>

isdigit(c) == \E i \in 1..10 : Digits[i] = c

DigitVal(c) == (CHOOSE i \in 1..10 : Digits[i] = c) - 1

\* isspace
isspace(c) == c \in {" ", "\t", NEWLINE, "\r", "\f"}

\* itoa: the character '0' + i; below '0' the characters are ' ( ) * + , - . /
itoa(i) ==
    IF i >= 0 THEN Digits[i + 1]
    ELSE <<"'", "(", ")", "*", "+", ",", "-", ".", "/">>[i + 10]

\* Quotient and remainder of an unsigned 64-bit value by 10, limb by limb
UInt64_divmod10(x) ==
    LET c1 == x[1]
        c2 == (c1 % 10) * Limb + x[2]
        c3 == (c2 % 10) * Limb + x[3]
        c4 == (c3 % 10) * Limb + x[4]
    IN  [q |-> <<c1 \div 10, c2 \div 10, c3 \div 10, c4 \div 10>>,
         r |-> c4 % 10]

\* val / 10 and val % 10 of an int64_t: the quotient truncates toward zero
\* and the remainder has the sign of val
Int64_div10(val) ==
    IF Int64_isneg(val)
    THEN Int64_sub(Int64_zero, UInt64_divmod10(Int64_sub(Int64_zero, val)).q)
    ELSE UInt64_divmod10(val).q

Int64_mod10(val) ==
    IF Int64_isneg(val) THEN -UInt64_divmod10(Int64_sub(Int64_zero, val)).r
    ELSE UInt64_divmod10(val).r

\* Number_len: the number of times val can be divided by 10 until it is 0
RECURSIVE Number_len(_)
Number_len(val) ==
    IF val = Int64_zero THEN 0 ELSE 1 + Number_len(Int64_div10(val))

\* The loop of _Number_val_tos followed by strnrev: itoa(val % 10) for every
\* division by 10, the last digit produced first in the text
RECURSIVE Number_digits(_)
Number_digits(val) ==
    IF val = Int64_zero THEN <<>>
    ELSE Number_digits(Int64_div10(val)) \o <<itoa(Int64_mod10(val))>>

\* _Number_val_tos: "0" for zero; for a negative value '-' and the digits
\* of val * -1.  For INT64_MIN the multiplication overflows and the value
\* stays INT64_MIN where the build wraps
Number_val_tos(val) ==
    IF val = Int64_zero THEN <<"0">>
    ELSE IF Int64_isneg(val)
    THEN <<"-">> \o Number_digits(Int64_sub(Int64_zero, val))
    ELSE Number_digits(val)

\* The cases of pr_str on a Number whose behaviour is undefined: val * -1
\* overflows, or the text and its terminator do not fit the
\* Number_len + 1 + neg bytes allocated for them
Number_print_undefined(val) ==
    \/ val = INT64_MIN
    \/ Len(Number_val_tos(val)) + 1
           > Number_len(val) + 1 + (IF Int64_isneg(val) THEN 1 ELSE 0)

\* str_escape: a doublequote, a backslash and a newline become two
\* characters each
RECURSIVE str_escape(_)
str_escape(s) ==
    IF s = <<>> THEN <<>>
    ELSE (CASE Head(s) = DQUOTE  -> <<BSLASH, DQUOTE>>
            [] Head(s) = BSLASH  -> <<BSLASH, BSLASH>>
            [] Head(s) = NEWLINE -> <<BSLASH, "n">>
            [] OTHER             -> <<Head(s)>>)
         \o str_escape(Tail(s))

Chars(str) ==
    CASE str = "nil" -> <<"n", "i", "l">>
      [] str = "true" -> <<"t", "r", "u", "e">>
      [] str = "false" -> <<"f", "a", "l", "s", "e">>

\* pr_str with print_readably, and pr_list: the elements separated by one
\* space, in parentheses
RECURSIVE pr_str(_), pr_elems(_)
pr_elems(elems) ==
    IF elems = <<>> THEN <<>>
    ELSE pr_str(elems[1])
         \o (IF Len(elems) > 1 THEN <<" ">> \o pr_elems(Tail(elems)) ELSE <<>>)

pr_str(datum) ==
    CASE LispDatum_istype(datum, "num")   -> Number_val_tos(datum.num)
      [] LispDatum_istype(datum, "sym")   -> datum.sym
      [] LispDatum_istype(datum, "list")  ->
            <<"(">> \o pr_elems(datum.list) \o <<")">>
      [] LispDatum_istype(datum, "str")   ->
            <<DQUOTE>> \o str_escape(datum.str) \o <<DQUOTE>>
      [] LispDatum_istype(datum, "nil")   -> Chars("nil")
      [] LispDatum_istype(datum, "true")  -> Chars("true")
      [] LispDatum_istype(datum, "false") -> Chars("false")

\* parse_until: the characters of str from position i up to the first
\* whitespace or parenthesis
RECURSIVE parse_until(_, _)
parse_until(str, i) ==
    IF i > Len(str) \/ isspace(str[i]) \/ str[i] \in {"(", ")"} THEN <<>>
    ELSE <<str[i]>> \o parse_until(str, i + 1)

\* tokenize: whitespace is skipped, a parenthesis is a token, anything else
\* runs until whitespace or a parenthesis
RECURSIVE tokenize(_, _)
tokenize(str, i) ==
    IF i > Len(str) THEN <<>>
    ELSE IF isspace(str[i]) THEN tokenize(str, i + 1)
    ELSE IF str[i] \in {"(", ")"} THEN <<<<str[i]>>>> \o tokenize(str, i + 1)
    ELSE <<parse_until(str, i)>> \o tokenize(str, i + Len(parse_until(str, i)))

\* x * 10 + d of an unsigned 64-bit value; carry is what does not fit
UInt64_mul10_add(x, d) ==
    LET t4 == x[4] * 10 + d
        t3 == x[3] * 10 + t4 \div Limb
        t2 == x[2] * 10 + t3 \div Limb
        t1 == x[1] * 10 + t2 \div Limb
    IN  [v |-> <<t1 % Limb, t2 % Limb, t3 % Limb, t4 % Limb>>,
         carry |-> t1 \div Limb]

\* The digits of token from position i on, accumulated in base 10 until
\* the value no longer fits 64 bits
RECURSIVE strtol_digits(_, _, _, _)
strtol_digits(token, i, v, ovf) ==
    IF ovf \/ i > Len(token) \/ ~isdigit(token[i]) THEN [v |-> v, ovf |-> ovf]
    ELSE strtol_digits(token, i + 1,
                       UInt64_mul10_add(v, DigitVal(token[i])).v,
                       UInt64_mul10_add(v, DigitVal(token[i])).carry > 0)

\* strtol(token, NULL, 10): an optional sign and the digits after it; a
\* value outside long is LONG_MAX or LONG_MIN
strtol(token) ==
    LET neg == token[1] = "-"
        m   == strtol_digits(token, IF neg THEN 2 ELSE 1, Int64_zero, FALSE)
    IN  IF neg
        THEN IF m.ovf \/ (Int64_isneg(m.v) /\ m.v # INT64_MIN) THEN INT64_MIN
             ELSE Int64_sub(Int64_zero, m.v)
        ELSE IF m.ovf \/ Int64_isneg(m.v) THEN INT64_MAX
             ELSE m.v

\* `int i = strtol(..)`: the low 32 bits of the long, sign-extended again
\* when the int becomes the value of the datum
Int_of_long(x) ==
    LET ext == IF x[3] >= Limb \div 2 THEN Limb - 1 ELSE 0
    IN  <<ext, ext, x[3], x[4]>>

\* The characters that cannot start a symbol (the backquote, which no text
\* printed here holds, is left out)
SYMBOL_INV_CHARS ==
    {" ", "\t", NEWLINE, "\r", "[", "]", "{", "}", "(", "'", DQUOTE, ",", ";",
     ")"}

\* read_atom: an int when the token starts with a digit or with '-' and a
\* digit, else a symbol unless its first character cannot start one
read_atom(token) ==
    IF token = <<>> THEN NULL
    ELSE IF \/ isdigit(token[1])
            \/ token[1] = "-" /\ Len(token) > 1 /\ isdigit(token[2])
    THEN Num(Int_of_long(strtol(token)))
    ELSE IF token[1] \notin SYMBOL_INV_CHARS THEN Sym(token)
    ELSE NULL

\* read_form and read_list over the tokens, from position pos; the result
\* is the datum (NULL for an illegal form) and the position after it
RECURSIVE read_form(_, _), read_list(_, _, _)
read_list(tokens, pos, list) ==
    IF pos > Len(tokens) THEN [v |-> NULL, pos |-> pos]
    ELSE IF tokens[pos][1] = ")" THEN [v |-> Lst(list), pos |-> pos + 1]
    ELSE LET form == read_form(tokens, pos)
         IN  IF form.v = NULL THEN [v |-> NULL, pos |-> form.pos]
             ELSE read_list(tokens, form.pos, Append(list, form.v))

read_form(tokens, pos) ==
    IF pos > Len(tokens) THEN [v |-> NULL, pos |-> pos]
    ELSE IF tokens[pos][1] = "(" THEN read_list(tokens, pos + 1, <<>>)
    ELSE IF tokens[pos][1] = ")" THEN [v |-> NULL, pos |-> pos + 1]
    ELSE [v |-> read_atom(tokens[pos]), pos |-> pos + 1]

\* read_str and read_form: the first form of the text
READ(str) == read_form(tokenize(str, 1), 1).v

(***************************************************************************)
(* SpecRW: a datum is printed readably and the text is read back.  The     *)
(* data are Numbers near zero, at the ends of the 32-bit and of the 64-bit *)
(* range, Strings (with the characters the printer escapes), Symbols,      *)
(* nil, true, false, and Lists of them, nested once.                       *)
(***************************************************************************)
MaxElems == 2

RwNums ==
    NumVals
        \cup {Int64_of(n) : n \in {10, -10, 1234567890, 2147483647,
                                   -2147483647}}
        \cup {<<0, 0, Limb \div 2, 0>>,
              <<Limb - 1, Limb - 1, Limb \div 2, 0>>,
              <<Limb - 1, Limb - 1, Limb \div 2 - 1, Limb - 1>>}

RwStrs == {<<>>, <<"a">>, <<"a", " ", "b">>, <<DQUOTE>>, <<BSLASH>>,
           <<NEWLINE>>, <<"(">>, <<"7">>}

RwSyms == {<<"a">>, <<"a", "b">>, <<"+">>, <<"-">>, <<"x", "1">>, <<"-", "a">>}

RwAtoms ==
    {Num(v) : v \in RwNums} \cup {Str(s) : s \in RwStrs}
        \cup {Sym(s) : s \in RwSyms} \cup {Nil, True, False}

\* The elements of the lists
RwElems ==
    {Num(v) : v \in {Int64_of(0), Int64_of(1), Int64_of(-1), INT64_MAX,
                     INT64_MIN, <<0, 0, Limb \div 2, 0>>}}
        \cup {Str(<<"a">>), Str(<<"a", " ", "b">>), Sym(<<"a">>), Sym(<<"+">>),
              Nil, True}

\* The elements of the lists that hold lists
RwInner ==
    {Num(Int64_of(1)), Sym(<<"a">>), Str(<<"a">>), Nil, Lst(<<>>),
     Lst(<<Sym(<<"b">>)>>), Lst(<<Num(Int64_of(2)), Lst(<<True>>)>>)}

RwLists(S) == {Lst(s) : s \in SeqsUpTo(S, MaxElems)}

RwData == RwAtoms \cup RwLists(RwElems) \cup RwLists(RwInner)

\* The datum holds a Number that pr_str cannot print with defined behaviour
RECURSIVE HasUndefined(_)
HasUndefined(d) ==
    IF LispDatum_istype(d, "num") THEN Number_print_undefined(d.num)
    ELSE IF LispDatum_istype(d, "list")
    THEN \E i \in 1..Len(d.list) : HasUndefined(d.list[i])
    ELSE FALSE

\* PRINT: pr_str(d, true); where its behaviour is undefined the process
\* may also end
RwPrint(d) ==
    /\ rwop.op = "none"
    /\ \/ rwop' = [op |-> "print", d |-> d, s |-> pr_str(d)]
       \/ HasUndefined(d) /\ rwop' = [op |-> "crash", d |-> d]
    /\ UNCHANGED <<eqVars, listVars, evalVars, exnVars, envVars, symVars,
                   getVars, tblVars, numop>>

\* READ of the text just printed
RwRead ==
    /\ rwop.op = "print"
    /\ rwop' = [op |-> "read", d |-> rwop.d, s |-> rwop.s, r |-> READ(rwop.s)]
    /\ UNCHANGED <<eqVars, listVars, evalVars, exnVars, envVars, symVars,
                   getVars, tblVars, numop>>

RwInit ==
    /\ eqargs = <<1, 1, 1>>
    /\ cmps = {}
    /\ ListIdle
    /\ EvalIdle
    /\ ExnIdle
    /\ EnvIdle
    /\ SymIdle
    /\ LibIdle

RwNext ==
    \/ \E d \in RwData : RwPrint(d)
    \/ RwRead

SpecRW == RwInit /\ [][RwNext]_vars

\* C23: for every readable datum d built from Numbers (any signed 64-bit
\* value), Strings, Symbols, nil/true/false and Lists of these, reading
\* the readable print of d yields a datum structurally equal to d
C23_ReadPrintRoundTrip ==
    /\ rwop.op # "crash"
    /\ rwop.op = "read" => rwop.r = rwop.d

\* The data the reader gives back as printed: Numbers that fit an int,
\* Symbols, and Lists of them
RECURSIVE ReadsBack(_)
ReadsBack(d) ==
    CASE LispDatum_istype(d, "num")  -> Int_of_long(d.num) = d.num
      [] LispDatum_istype(d, "sym")  -> TRUE
      [] LispDatum_istype(d, "list") ->
            \A i \in 1..Len(d.list) : ReadsBack(d.list[i])
      [] OTHER -> FALSE

\* The round trip holds exactly on those data
C23_RoundTripOfIntsAndSymbols ==
    rwop.op = "read" => (rwop.r = rwop.d <=> ReadsBack(rwop.d))

=============================================================================
